---- MODULE Spec2Model ----
(***************************************************************************)
(* Model of the Jira MCP server (yossiovadia/jira-mcp): the bounded TTL    *)
(* response cache in front of the Ollama call (ask_ollama), the            *)
(* ticket-key based backend router (get_jira_client), the start-up of the  *)
(* Jira clients and the eight tool handlers.                               *)
(*                                                                         *)
(* Five specifications share the variables: Spec (the cache under every    *)
(* call sequence), RouterSpec (start-up and routing), ExtractSpec (the     *)
(* text extraction on every body), ConcSpec (ask_ollama served by two      *)
(* threads) and ToolSpec (the server handling tool calls).  Each holds the *)
(* variables of the others at their initial values.                        *)
(*                                                                         *)
(* Python strings are TLA+ strings; a Python dict is a sequence of entries *)
(* in insertion order (the iteration order of a dict); None is the         *)
(* sentinel None, which is no prompt, system message, handle or text of    *)
(* the model.                                                              *)
(***************************************************************************)
EXTENDS Integers, Sequences, FiniteSets, TLC

VARIABLES
    ollama_cache,                \* ollama_client/client.py:12  dict key -> (timestamp, response)
    ollama_cache_size,           \* config.py:88  OLLAMA_CACHE_SIZE
    ollama_cache_ttl,            \* config.py:89  OLLAMA_CACHE_TTL
    now,                         \* the value time.time() returns
    last,                        \* observation of the most recent ask_ollama call
    primary_jira,                \* jira_client/client.py:10
    secondary_jira,              \* jira_client/client.py:11
    secondary_project_prefixes,  \* config.py:73
    redhat_project_prefixes,     \* config.py:76-79
    jira_env,                    \* config.py:47-54  which credentials the environment sets
    phase,                       \* "boot" before initialize_jira_clients ran, "serving" after
    startup,                     \* observation of initialize_jira_clients
    routed,                      \* observation of the most recent get_jira_client call
    extraction,                  \* a decoded body and what _extract_response_text made of it
    threads,                     \* where each concurrently served ask_ollama call stands
    tool,                        \* observation of the most recent tool call
    attachments,                 \* config.py:19-22  the ticket directories under attachments_base_dir
    imported                     \* tools/get_tickets.py:5  the names the module imported

vars == <<ollama_cache, ollama_cache_size, ollama_cache_ttl, now, last,
          primary_jira, secondary_jira, secondary_project_prefixes,
          redhat_project_prefixes, jira_env, phase, startup, routed, extraction,
          threads, tool, attachments, imported>>

cacheVars == <<ollama_cache, ollama_cache_size, ollama_cache_ttl, now, last>>

routerVars == <<primary_jira, secondary_jira, secondary_project_prefixes,
                redhat_project_prefixes, jira_env, phase, startup, routed>>

extractVars == <<extraction>>

concVars == <<threads>>

toolVars == <<tool, attachments, imported>>

None == "None"

(***************************************************************************)
(* Bounds of the model.                                                    *)
(***************************************************************************)
MaxCacheSize == 2    \* OLLAMA_CACHE_SIZE ranges over 0..MaxCacheSize
MaxTTL == 2          \* OLLAMA_CACHE_TTL ranges over 1..MaxTTL
ToolCacheSize == 1   \* OLLAMA_CACHE_SIZE of the server handling tool calls
MaxTime == 2         \* the clock stops at MaxTime

(***************************************************************************)
(* Python string primitives.                                               *)
(***************************************************************************)
\* s.startswith(p)
StartsWith(s, p) == Len(s) >= Len(p) /\ SubSeq(s, 1, Len(p)) = p

\* s[a:b] for 0 <= a, with Python's clipping of b
Slice(s, a, b) ==
    LET e == IF b > Len(s) THEN Len(s) ELSE b
    IN  IF a >= e THEN "" ELSE SubSeq(s, a + 1, e)

\* s.find(sub, start): the lowest 0-based index >= start where sub occurs, else -1
Find(s, sub, start) ==
    LET hits == {i \in start..(Len(s) - Len(sub)) : SubSeq(s, i + 1, i + Len(sub)) = sub}
    IN  IF hits = {} THEN -1 ELSE CHOOSE i \in hits : \A j \in hits : i <= j

\* sub in s
Contains(s, sub) == Find(s, sub, 0) # -1

\* s.split(sep) for a one-character separator
RECURSIVE Split(_, _)
Split(s, sep) ==
    LET i == Find(s, sep, 0)
    IN  IF i = -1 THEN <<s>>
        ELSE <<Slice(s, 0, i)>> \o Split(Slice(s, i + 1, Len(s)), sep)

\* x in list
InList(x, list) == \E i \in 1..Len(list) : list[i] = x

(***************************************************************************)
(* The response cache: ollama_client/client.py (and the same code in       *)
(* jira_ollama_mcp.py).                                                    *)
(***************************************************************************)
\* hashlib.md5(...).hexdigest(): a deterministic digest of its argument,
\* taken to be collision free on the strings of the model
md5(s) == "md5:" \o s

\* cache_key = md5((prompt + (system_message or "")).encode()).hexdigest()
cache_key(prompt, system_message) ==
    md5(prompt \o (IF system_message = None \/ system_message = "" THEN "" ELSE system_message))

\* set(ollama_cache.keys())
CacheKeys(c) == {c[i].key : i \in 1..Len(c)}

\* cache_key in ollama_cache
InCache(c, key) == \E i \in 1..Len(c) : c[i].key = key

\* ollama_cache[cache_key]
CacheGet(c, key) == c[CHOOSE i \in 1..Len(c) : c[i].key = key]

\* del ollama_cache[key]
CacheDel(c, key) == SelectSeq(c, LAMBDA e : e.key # key)

\* ollama_cache[key] = (timestamp, response) for a key the dict may hold
CacheSet(c, key, timestamp, response) ==
    IF InCache(c, key)
    THEN [i \in 1..Len(c) |->
            IF c[i].key = key
            THEN [key |-> key, timestamp |-> timestamp, response |-> response]
            ELSE c[i]]
    ELSE Append(c, [key |-> key, timestamp |-> timestamp, response |-> response])

\* Variants of the validity test: the comparison inverted, and the bound included.
IsValid_inverted(timestamp, t, ttl) == t - timestamp > ttl
IsValid_inclusive(timestamp, t, ttl) == t - timestamp <= ttl

\* time.time() - timestamp < config.ollama_cache_ttl
IsValid(timestamp, t, ttl) == t - timestamp < ttl

\* Variant of the fullness test: > for >=.
CacheFull_off_by_one(c, size) == Len(c) > size

\* len(ollama_cache) >= config.ollama_cache_size
CacheFull(c, size) == Len(c) >= size

\* Variant of the eviction choice: max for min.
newest_key(c) ==
    LET i == CHOOSE i \in 1..Len(c) :
                /\ \A j \in 1..Len(c) : c[i].timestamp >= c[j].timestamp
                /\ \A j \in 1..(i - 1) : c[j].timestamp < c[i].timestamp
    IN  c[i].key

\* min(ollama_cache.keys(), key=lambda k: ollama_cache[k][0]): the first key,
\* in iteration order, of minimal timestamp
oldest_key(c) ==
    LET i == CHOOSE i \in 1..Len(c) :
                /\ \A j \in 1..Len(c) : c[i].timestamp <= c[j].timestamp
                /\ \A j \in 1..(i - 1) : c[j].timestamp > c[i].timestamp
    IN  c[i].key

(***************************************************************************)
(* Decoded JSON bodies: a value is a string, a number or a dict whose      *)
(* items are (name, value) fields in document order.                       *)
(***************************************************************************)
JStr(s) == [t |-> "str", v |-> s, items |-> <<>>]
JNum(s) == [t |-> "num", v |-> s, items |-> <<>>]
JDict(items) == [t |-> "dict", v |-> "", items |-> items]
Field(name, value) == [name |-> name, value |-> value]

\* name in d
HasField(d, name) == \E i \in 1..Len(d.items) : d.items[i].name = name

\* d[name]
GetField(d, name) == d.items[CHOOSE i \in 1..Len(d.items) : d.items[i].name = name].value

\* repr(value) as it appears inside str(dict)
RECURSIVE Repr(_)
RECURSIVE ReprItems(_)
ReprItems(items) ==
    IF items = <<>> THEN ""
    ELSE "'" \o items[1].name \o "': " \o Repr(items[1].value)
         \o (IF Len(items) > 1 THEN ", " ELSE "") \o ReprItems(Tail(items))
Repr(j) ==
    CASE j.t = "str" -> "'" \o j.v \o "'"
      [] j.t = "num" -> j.v
      [] OTHER -> "{" \o ReprItems(j.items) \o "}"

\* str(result)
PyStr(j) == IF j.t = "str" THEN j.v ELSE Repr(j)

\* the first value of result.items() that is a str longer than 10, as an index (0: none)
FirstLongString(d) ==
    LET good == {i \in 1..Len(d.items) :
                    d.items[i].value.t = "str" /\ Len(d.items[i].value.v) > 10}
    IN  IF good = {} THEN 0 ELSE CHOOSE i \in good : \A j \in good : i <= j

\* Variant of the extraction: the "message" shape is tried before "response".
_extract_response_text_message_first(result) ==
    IF result.t = "dict"
    THEN IF HasField(result, "message") /\ GetField(result, "message").t = "dict"
         THEN IF HasField(GetField(result, "message"), "content")
              THEN GetField(GetField(result, "message"), "content")
              ELSE JStr("No content in response")
         ELSE IF HasField(result, "response")
         THEN GetField(result, "response")
         ELSE IF FirstLongString(result) # 0
              THEN result.items[FirstLongString(result)].value
              ELSE JStr(PyStr(result))
    ELSE JStr(PyStr(result))

\* ollama_client/client.py:95-123 (jira_ollama_mcp.py:242-262)
_extract_response_text(result) ==
    IF result.t = "dict"
    THEN IF HasField(result, "response")
         THEN GetField(result, "response")
         ELSE IF HasField(result, "message") /\ GetField(result, "message").t = "dict"
         THEN IF HasField(GetField(result, "message"), "content")
              THEN GetField(GetField(result, "message"), "content")
              ELSE JStr("No content in response")
         ELSE IF FirstLongString(result) # 0
              THEN result.items[FirstLongString(result)].value
              ELSE JStr(PyStr(result))
    ELSE JStr(PyStr(result))

_handle_json_error(raw_text) ==
    LET start_idx == Find(raw_text, "\"content\":", 0) + 11
        end_idx == Find(raw_text, "\",", start_idx)
    IN  IF Len(raw_text) > 10
        THEN IF Contains(raw_text, "\"content\":") /\ end_idx > start_idx
             THEN Slice(raw_text, start_idx, end_idx)
             ELSE IF Len(raw_text) < 5000
             THEN "Raw response (JSON parsing failed): " \o raw_text
             ELSE "Error parsing Ollama response"
        ELSE "Error parsing Ollama response"

(***************************************************************************)
(* What httpx.post and response.json() can do.                             *)
(***************************************************************************)
HttpOk(body) == [kind |-> "ok", status |-> "200", text |-> "", body |-> body]
HttpStatus(code) == [kind |-> "status", status |-> code, text |-> "", body |-> JStr("")]
HttpBadJson(raw) == [kind |-> "badjson", status |-> "200", text |-> raw, body |-> JStr("")]
HttpRaise(msg) == [kind |-> "transport", status |-> "", text |-> msg, body |-> JStr("")]
NoHttp == [kind |-> "none", status |-> "", text |-> "", body |-> JStr("")]

\* What a call returns and leaves behind: the cache, the returned value, the
\* return statement taken, and the number of POSTs made.
Outcome(c, result, path, posts) ==
    [cache |-> c, result |-> result, path |-> path, posts |-> posts]

\* Variant of the failure path: the error string is cached like a response.
ErrorResult_cached(c, key, t_store, http) ==
    LET text == CASE http.kind = "transport" -> "Error calling Ollama: " \o http.text
                  [] http.kind = "status" -> "Error from Ollama API: " \o http.status
                  [] OTHER -> _handle_json_error(http.text)
        path == CASE http.kind = "transport" -> "exception"
                  [] http.kind = "status" -> "api_error"
                  [] OTHER -> "json_error"
    IN  Outcome(CacheSet(c, key, t_store, JStr(text)), JStr(text), path, 1)

\* client.py:83-93: the POST raised, the status is not 200, or the body is not
\* JSON.  The cache c is left as it is.
ErrorResult(c, key, t_store, http) ==
    CASE http.kind = "transport" ->
            Outcome(c, JStr("Error calling Ollama: " \o http.text), "exception", 1)
      [] http.kind = "status" ->
            Outcome(c, JStr("Error from Ollama API: " \o http.status), "api_error", 1)
      [] OTHER ->
            Outcome(c, JStr(_handle_json_error(http.text)), "json_error", 1)

\* client.py:72-82: evict when full, insert, return.  min() of an empty
\* sequence raises ValueError, which the enclosing "except Exception"
\* (client.py:91-93) turns into an error string.
StoreResponse(c, key, size, t_store, response_text) ==
    IF CacheFull(c, size)
    THEN IF c = <<>>
         THEN Outcome(c, JStr("Error calling Ollama: min() arg is an empty sequence"),
                      "exception", 1)
         ELSE Outcome(CacheSet(CacheDel(c, oldest_key(c)), key, t_store, response_text),
                      response_text, "stored", 1)
    ELSE Outcome(CacheSet(c, key, t_store, response_text), response_text, "stored", 1)

\* client.py:39-93: the part of ask_ollama after a miss.  c is the cache after
\* the removal of an expired entry.
PostAndStore(c, key, size, t_store, http) ==
    IF http.kind = "ok"
    THEN StoreResponse(c, key, size, t_store, _extract_response_text(http.body))
    ELSE ErrorResult(c, key, t_store, http)

\* Variant of the lookup: a hit stamps the entry with the time of the read.
ask_ollama_refreshing(c, size, ttl, prompt, system_message, t_lookup, t_store, http) ==
    LET key == cache_key(prompt, system_message)
    IN  IF InCache(c, key) /\ IsValid(CacheGet(c, key).timestamp, t_lookup, ttl)
        THEN Outcome(CacheSet(c, key, t_lookup, CacheGet(c, key).response),
                     CacheGet(c, key).response, "hit", 0)
        ELSE PostAndStore(IF InCache(c, key) THEN CacheDel(c, key) ELSE c,
                          key, size, t_store, http)

\* ask_ollama(prompt, system_message) called when time.time() is t_lookup, the
\* insertion reading time.time() as t_store
ask_ollama(c, size, ttl, prompt, system_message, t_lookup, t_store, http) ==
    LET key == cache_key(prompt, system_message)
    IN  IF InCache(c, key) /\ IsValid(CacheGet(c, key).timestamp, t_lookup, ttl)
        THEN Outcome(c, CacheGet(c, key).response, "hit", 0)
        ELSE PostAndStore(IF InCache(c, key) THEN CacheDel(c, key) ELSE c,
                          key, size, t_store, http)

(***************************************************************************)
(* The backend router: jira_client/client.py and jira_ollama_mcp.py.       *)
(***************************************************************************)
UpperCase == {"A", "B", "C", "D", "E", "F", "G", "H", "I", "J", "K", "L", "M",
              "N", "O", "P", "Q", "R", "S", "T", "U", "V", "W", "X", "Y", "Z"}
Digit == {"0", "1", "2", "3", "4", "5", "6", "7", "8", "9"}

\* the length of the leading run of [A-Z] of s
RECURSIVE UpperRun(_, _)
UpperRun(s, n) ==
    IF n < Len(s) /\ SubSeq(s, n + 1, n + 1) \in UpperCase THEN UpperRun(s, n + 1) ELSE n

\* re.match(r'^([A-Z]+)-\d+', ticket_key): group(1), or None when there is no match
re_match_project(ticket_key) ==
    LET n == UpperRun(ticket_key, 0)
    IN  IF /\ n >= 1
           /\ Len(ticket_key) >= n + 2
           /\ SubSeq(ticket_key, n + 1, n + 1) = "-"
           /\ SubSeq(ticket_key, n + 2, n + 2) \in Digit
        THEN SubSeq(ticket_key, 1, n)
        ELSE None

\* config.py:73  os.getenv('SECONDARY_PROJECT_PREFIXES', 'CNV').split(',')
load_secondary_project_prefixes(env) ==
    Split(IF env = None THEN "CNV" ELSE env, ",")

\* config.py:76-79  os.getenv('REDHAT_PROJECT_PREFIXES', secondary list), split when a str
load_redhat_project_prefixes(env, secondary) ==
    IF env = None THEN secondary ELSE Split(env, ",")

Returned(value) == [raised |-> "", value |-> value]
Raised(exc) == [raised |-> exc, value |-> None]

\* Variant of the router: an unavailable secondary falls back to the primary.
get_jira_client_fallback(ticket_key, primary, secondary, sec_prefixes, rh_prefixes) ==
    IF ticket_key = None \/ ticket_key = ""
    THEN Returned(None)
    ELSE LET project_prefix == re_match_project(ticket_key)
         IN  IF project_prefix = None
             THEN Returned(None)
             ELSE IF InList(project_prefix, sec_prefixes) \/ InList(project_prefix, rh_prefixes)
             THEN Returned(IF secondary = None THEN primary ELSE secondary)
             ELSE Raised("AttributeError")

\* jira_client/client.py:89-124.  Config has no attribute allowed_projects, so
\* evaluating config.allowed_projects raises AttributeError.
get_jira_client(ticket_key, primary, secondary, sec_prefixes, rh_prefixes) ==
    IF ticket_key = None \/ ticket_key = ""
    THEN Returned(None)
    ELSE LET project_prefix == re_match_project(ticket_key)
         IN  IF project_prefix = None
             THEN Returned(None)
             ELSE IF InList(project_prefix, sec_prefixes) \/ InList(project_prefix, rh_prefixes)
             THEN Returned(secondary)
             ELSE Raised("AttributeError")

\* jira_ollama_mcp.py:111-134
get_jira_client_single_file(ticket_key, primary, secondary, sec_prefixes, rh_prefixes) ==
    IF ticket_key = None \/ ticket_key = ""
    THEN Returned(None)
    ELSE LET project_prefix == re_match_project(ticket_key)
         IN  IF project_prefix = None
             THEN Returned(primary)
             ELSE IF InList(project_prefix, sec_prefixes) \/ InList(project_prefix, rh_prefixes)
             THEN Returned(secondary)
             ELSE Returned(primary)

\* The client handles JIRA(...) can build.
PrimaryToken == "primary/token"
PrimaryBasic == "primary/basic"
SecondaryToken == "secondary/token"

\* jira_client/client.py:26-59 (jira_ollama_mcp.py:136-164): the primary handle
\* after start-up.  build and myself are the outcomes of JIRA(...) and of
\* primary_jira.myself(): "ok" or "raise".
init_primary(pat, username, password, build, myself) ==
    LET attempted == pat \/ (username /\ password)
        handle == IF pat THEN PrimaryToken ELSE PrimaryBasic
    IN  IF ~attempted THEN None
        ELSE IF build = "raise" \/ myself = "raise" THEN None
        ELSE handle

\* jira_client/client.py:61-81 (jira_ollama_mcp.py:166-185)
init_secondary(pat, build, myself) ==
    IF ~pat THEN None
    ELSE IF build = "raise" \/ myself = "raise" THEN None
    ELSE SecondaryToken

\* config.py:47-54: the hosts and credentials the environment sets
primary_jira_host == "primary.jira.com"
primary_jira_pat == "primary-pat-token"
primary_jira_basic == "test-user:test-password"
secondary_jira_host == "secondary.jira.com"
secondary_jira_pat == "secondary-pat-token"

\* a call JIRA(server=..., <auth>=credential); auth names how the credential is
\* passed: "bearer_header" is options={'headers': {'Authorization': 'Bearer <pat>'}}
JiraCall(server, auth, credential) ==
    [server |-> server, auth |-> auth, credential |-> credential]

\* Variant of the selection: basic authentication is preferred to the PAT.
primary_jira_call_basic_first(impl, pat, username, password) ==
    IF username /\ password
    THEN <<JiraCall("https://" \o primary_jira_host, "basic_auth", primary_jira_basic)>>
    ELSE IF pat
    THEN <<JiraCall("https://" \o primary_jira_host,
                    IF impl = "package" THEN "bearer_header" ELSE "token_auth",
                    primary_jira_pat)>>
    ELSE <<>>

\* jira_client/client.py:28-46 (jira_ollama_mcp.py:138-152): the JIRA(...) call
\* made for the primary backend, none when no credential is configured
primary_jira_call(impl, pat, username, password) ==
    IF pat
    THEN <<JiraCall("https://" \o primary_jira_host,
                    IF impl = "package" THEN "bearer_header" ELSE "token_auth",
                    primary_jira_pat)>>
    ELSE IF username /\ password
    THEN <<JiraCall("https://" \o primary_jira_host, "basic_auth", primary_jira_basic)>>
    ELSE <<>>

\* jira_client/client.py:63-70 (jira_ollama_mcp.py:168-175)
secondary_jira_call(pat) ==
    IF pat
    THEN <<JiraCall("https://" \o secondary_jira_host, "token_auth", secondary_jira_pat)>>
    ELSE <<>>

\* What start-up did: the handles, the JIRA(...) calls in order, what each
\* backend's construction and myself() did ("skipped" when not reached), and
\* the exception that left the function.
Startup(impl, primary, secondary, calls, pb, pm, sb, sm, raised) ==
    [impl |-> impl, primary |-> primary, secondary |-> secondary, calls |-> calls,
     primary_build |-> pb, primary_myself |-> pm,
     secondary_build |-> sb, secondary_myself |-> sm, raised |-> raised]

\* Variant of start-up: a failure of the primary backend ends it.
initialize_jira_clients_abort(impl, env, pb, pm, sb, sm) ==
    LET pcalls == primary_jira_call(impl, env.primary_pat, env.primary_username,
                                    env.primary_password)
        failed == pcalls # <<>> /\ (pb = "raise" \/ pm = "raise")
        scalls == IF failed THEN <<>> ELSE secondary_jira_call(env.secondary_pat)
    IN  Startup(impl,
                init_primary(env.primary_pat, env.primary_username, env.primary_password,
                             pb, pm),
                IF failed THEN None ELSE init_secondary(env.secondary_pat, sb, sm),
                pcalls \o scalls,
                IF pcalls = <<>> THEN "skipped" ELSE pb,
                IF pcalls = <<>> \/ pb = "raise" THEN "skipped" ELSE pm,
                IF scalls = <<>> THEN "skipped" ELSE sb,
                IF scalls = <<>> \/ sb = "raise" THEN "skipped" ELSE sm,
                IF failed THEN "JIRAError" ELSE "")

\* jira_client/client.py:15-87 (jira_ollama_mcp.py:136-192).  pb, pm, sb and sm
\* are what JIRA(...) and myself() do for the primary and the secondary
\* backend, "ok" or "raise"; each backend has its own try/except Exception.
initialize_jira_clients(impl, env, pb, pm, sb, sm) ==
    LET pcalls == primary_jira_call(impl, env.primary_pat, env.primary_username,
                                    env.primary_password)
        scalls == secondary_jira_call(env.secondary_pat)
    IN  Startup(impl,
                init_primary(env.primary_pat, env.primary_username, env.primary_password,
                             pb, pm),
                init_secondary(env.secondary_pat, sb, sm),
                pcalls \o scalls,
                IF pcalls = <<>> THEN "skipped" ELSE pb,
                IF pcalls = <<>> \/ pb = "raise" THEN "skipped" ELSE pm,
                IF scalls = <<>> THEN "skipped" ELSE sb,
                IF scalls = <<>> \/ sb = "raise" THEN "skipped" ELSE sm,
                "")

(***************************************************************************)
(* The tool handlers: tools/ticket_details.py, tools/attachments.py and    *)
(* tools/get_tickets.py of the package, and the same functions of          *)
(* jira_ollama_mcp.py.  A handler is an operator of the world w it runs in *)
(* (the handles, the cache, the attachment directories) and of env, what   *)
(* Jira and Ollama do during the call; it yields the returned string or    *)
(* the exception that left it, and the cache and directories it leaves.    *)
(***************************************************************************)
\* config.py:19 and 25
attachments_base_dir == "/srv/jira-mcp/attachments"
pdf_support == TRUE

\* tools/attachments.py:15-18
TEXT_FILE_EXTENSIONS ==
    {".txt", ".md", ".py", ".js", ".html", ".css", ".java", ".cpp", ".c",
     ".h", ".json", ".xml", ".csv", ".log"}

\* what the Jira servers hold for a key: jira_client.issue(key).fields, the
\* comments, and the names of the attachments
JiraIssue(ticket_key) ==
    [summary |-> "Login fails", status |-> "Open", priority |-> None,
     assignee |-> "Dana", reporter |-> "Robin", created |-> "2024-01-01",
     updated |-> "2024-01-02", description |-> None,
     comments |-> IF ticket_key = "CNV-1"
                  THEN <<[author |-> "Robin", created |-> "2024-01-02", body |-> "Seen again"]>>
                  ELSE <<>>,
     attachment |-> IF ticket_key = "CNV-1" THEN <<"log.txt", "image.png", "notes.md">>
                    ELSE IF ticket_key = "ABC-1" THEN <<"core.log", "log.txt">>
                    ELSE <<>>]

\* str(e) of the exception a failed Jira call raises
JiraErrorText == "Issue Does Not Exist"

\* what a text attachment holds, and os.path.getsize of it
FileContent(filename) == "content of " \o filename
FileSize(filename) ==
    IF filename = "core.log" THEN 10 * 1024 * 1024 + 1 ELSE Len(FileContent(filename))

\* Variant of the pattern: r'^[A-Z]+-\d+', without the "$".
validate_ticket_key_prefix(ticket_key) ==
    LET n == UpperRun(ticket_key, 0)
    IN  /\ n >= 1
        /\ Len(ticket_key) >= n + 2
        /\ SubSeq(ticket_key, n + 1, n + 1) = "-"
        /\ SubSeq(ticket_key, n + 2, n + 2) \in Digit

\* utils/security.py:8-18  bool(re.match(r'^[A-Z]+-\d+$', ticket_key))
validate_ticket_key(ticket_key) ==
    LET n == UpperRun(ticket_key, 0)
    IN  /\ n >= 1
        /\ Len(ticket_key) >= n + 2
        /\ SubSeq(ticket_key, n + 1, n + 1) = "-"
        /\ \A i \in (n + 2)..Len(ticket_key) : SubSeq(ticket_key, i, i) \in Digit

\* utils/security.py:19-33 (jira_ollama_mcp.py:531-533): the characters
\* \ / * ? : " < > | become "_"; the base name of the result is the result
RECURSIVE sanitize_filename(_)
sanitize_filename(filename) ==
    IF filename = "" THEN ""
    ELSE (IF SubSeq(filename, 1, 1) \in {"\\", "/", "*", "?", ":", "\"", "<", ">", "|"}
          THEN "_" ELSE SubSeq(filename, 1, 1))
         \o sanitize_filename(SubSeq(filename, 2, Len(filename)))

LowerCase == {"a", "b", "c", "d", "e", "f", "g", "h", "i", "j", "k", "l", "m",
              "n", "o", "p", "q", "r", "s", "t", "u", "v", "w", "x", "y", "z"}

\* tools/attachments.py:108: os.path.dirname(filename) is empty and the name
\* matches ^[a-zA-Z0-9._-]+$; jira_ollama_mcp.py:603-608 also allows blanks
\* and parentheses.  The result is "" or the end of the error message.
filename_error(impl, filename) ==
    LET Plain == LowerCase \cup UpperCase \cup Digit \cup {".", "_", "-"}
        chars == {SubSeq(filename, i, i) : i \in 1..Len(filename)}
    IN  IF impl = "package"
        THEN IF filename # "" /\ chars \subseteq Plain THEN ""
             ELSE ". Only alphanumeric characters, dots, underscores and hyphens are allowed."
        ELSE IF "/" \in chars
             THEN ". Path traversal is not allowed."
        ELSE IF filename # "" /\ chars \subseteq Plain \cup {" ", "(", ")"} THEN ""
             ELSE ". Filename contains invalid characters."

\* os.path.splitext(filename)[1].lower() for the lower-case names of the model
file_ext(filename) ==
    LET dots == {i \in 2..Len(filename) : SubSeq(filename, i, i) = "."}
    IN  IF dots = {} THEN ""
        ELSE SubSeq(filename, CHOOSE i \in dots : \A j \in dots : j <= i, Len(filename))

\* F(v), with v computed once
Bind(v, F(_)) == CHOOSE y \in {F(x) : x \in {v}} : TRUE

\* the get_jira_client a handler calls, with no call made yet as NotRouted
NotRouted == [raised |-> "", value |-> "not called"]
tool_get_jira_client(w, ticket_key) ==
    IF w.impl = "package"
    THEN get_jira_client(ticket_key, w.primary, w.secondary, w.sec_prefixes, w.rh_prefixes)
    ELSE get_jira_client_single_file(ticket_key, w.primary, w.secondary,
                                     w.sec_prefixes, w.rh_prefixes)

\* What a handler did: the string it returned (None when an exception left
\* it), the result of its own get_jira_client call, the numbers of Jira
\* client calls, of ask_ollama calls and of get_ticket_details calls it made,
\* what get_ticket_details returned to it, the file name it was given, the
\* prompt of its own ask_ollama call and how that call ended, and what
\* it left behind.
ToolOut(w, result, raised, route, jira_calls, llm_calls) ==
    [result |-> result, raised |-> raised, route |-> route,
     jira_calls |-> jira_calls, llm_calls |-> llm_calls, details_calls |-> 0,
     details |-> None, filename |-> None, prompt |-> None, llm_path |-> "none", cache |-> w.cache, fs |-> w.fs]

\* out, for a handler that called ask_ollama(prompt, ...) with outcome a
asked(out, a, prompt) ==
    [out EXCEPT !.cache = a.cache, !.prompt = prompt, !.llm_path = a.path]

\* f"Error: Not connected to Jira for ticket {ticket_key}"
not_connected(ticket_key) == "Error: Not connected to Jira for ticket " \o ticket_key

\* ticket_details.py:41-57: the comments part of the details
RECURSIVE comment_lines(_, _)
comment_lines(comments, i) ==
    IF i > Len(comments) \/ i > 3 THEN ""
    ELSE "\n--- Comment by " \o comments[i].author \o " on " \o comments[i].created
         \o " ---\n" \o comments[i].body \o "\n" \o comment_lines(comments, i + 1)

\* ticket_details.py:27-59: the details string of an issue; comments is what
\* jira_client.comments(issue) does
ticket_details_text(ticket_key, issue, comments) ==
    "\nTicket: " \o ticket_key
    \o "\nSummary: " \o issue.summary
    \o "\nStatus: " \o issue.status
    \o "\nPriority: " \o (IF issue.priority = None THEN "Not set" ELSE issue.priority)
    \o "\nAssignee: " \o (IF issue.assignee = None THEN "Unassigned" ELSE issue.assignee)
    \o "\nReporter: " \o (IF issue.reporter = None THEN "Unknown" ELSE issue.reporter)
    \o "\nCreated: " \o issue.created
    \o "\nUpdated: " \o issue.updated
    \o "\n\nDescription:\n"
    \o (IF issue.description = None THEN "No description provided" ELSE issue.description)
    \o "\n"
    \o (IF comments = "raise" THEN "\nError retrieving comments: " \o JiraErrorText
        ELSE IF issue.comments = <<>> THEN "\nNo comments on this ticket."
        ELSE "\nComments (" \o ToString(Len(issue.comments)) \o "):\n"
             \o comment_lines(issue.comments, 1)
             \o (IF Len(issue.comments) > 3
                 THEN "\n[..." \o ToString(Len(issue.comments) - 3)
                      \o " more comments not shown...]\n"
                 ELSE ""))

\* Variant of the handler: the "if not jira_client" test is left out.
get_ticket_details_unguarded(w, ticket_key, env) ==
    LET r == tool_get_jira_client(w, ticket_key)
    IN  IF r.raised # "" THEN ToolOut(w, None, r.raised, r, 0, 0)
        ELSE IF r.value = None
        THEN ToolOut(w, "Error retrieving ticket details: 'NoneType' object has no attribute 'issue'",
                     "", r, 1, 0)
        ELSE IF env.jira = "raise"
        THEN ToolOut(w, "Error retrieving ticket details: " \o JiraErrorText, "", r, 1, 0)
        ELSE ToolOut(w, ticket_details_text(ticket_key, JiraIssue(ticket_key), env.comments),
                     "", r, 2, 0)

\* tools/ticket_details.py:8-62 (jira_ollama_mcp.py:355-410).  The call of
\* get_jira_client is outside the try: what it raises leaves the handler.
get_ticket_details(w, ticket_key, env) ==
    LET r == tool_get_jira_client(w, ticket_key)
    IN  IF r.raised # "" THEN ToolOut(w, None, r.raised, r, 0, 0)
        ELSE IF r.value = None THEN ToolOut(w, not_connected(ticket_key), "", r, 0, 0)
        ELSE IF env.jira = "raise"
        THEN ToolOut(w, "Error retrieving ticket details: " \o JiraErrorText, "", r, 1, 0)
        ELSE ToolOut(w, ticket_details_text(ticket_key, JiraIssue(ticket_key), env.comments),
                     "", r, 2, 0)

\* ask_ollama as a handler calls it; http is what the POST does if one is made
tool_ask_ollama(w, prompt, system_message, http) ==
    ask_ollama(w.cache, w.size, w.ttl, prompt, system_message, w.t, w.t, http)

\* "x and not x.startswith('Error')" for what ask_ollama returned
usable_answer(a) == a.t = "str" /\ a.v # "" /\ ~StartsWith(a.v, "Error")

\* Variant of the handler: ask_ollama is called before the details are
\* looked at.
summarize_ticket_eager(w, ticket_key, env) ==
    LET r == tool_get_jira_client(w, ticket_key)
        prompt(d) == "Please summarize this Jira ticket in a concise way, focusing on the main issue and solution if available:\n\n"
                     \o d.result
    IN  IF r.raised # "" THEN ToolOut(w, None, r.raised, r, 0, 0)
        ELSE IF r.value = None THEN ToolOut(w, not_connected(ticket_key), "", r, 0, 0)
        ELSE Bind(get_ticket_details(w, ticket_key, env), LAMBDA d :
                Bind(tool_ask_ollama(w, prompt(d),
                        "You are a helpful assistant specialized in summarizing Jira tickets. Keep your response concise and focus on the most important information.",
                        env.http[1]),
                     LAMBDA a :
                        [asked(ToolOut(w, IF StartsWith(d.result, "Error")
                                          THEN "Cannot summarize ticket: " \o d.result
                                          ELSE "Summary of " \o ticket_key \o ":\n\n"
                                               \o a.result.v,
                                       "", r, d.jira_calls, 1), a, prompt(d))
                            EXCEPT !.details_calls = 1, !.details = d.result]))

\* tools/ticket_details.py:64-97 (jira_ollama_mcp.py:412-446)
summarize_ticket(w, ticket_key, env) ==
    LET r == tool_get_jira_client(w, ticket_key)
        prompt(d) == "Please summarize this Jira ticket in a concise way, focusing on the main issue and solution if available:\n\n"
                     \o d.result
        answered(d, a) ==
            IF a.result.t # "str"
            THEN asked(ToolOut(w, "Error summarizing ticket: object has no attribute 'startswith'",
                               "", r, d.jira_calls, 1), a, prompt(d))
            ELSE IF usable_answer(a.result)
            THEN asked(ToolOut(w, "Summary of " \o ticket_key \o ":\n\n" \o a.result.v,
                               "", r, d.jira_calls, 1), a, prompt(d))
            ELSE asked(ToolOut(w, "Could not generate summary using Ollama. Using built-in summary instead:\n\nTicket "
                                  \o ticket_key \o " concerns: '"
                                  \o JiraIssue(ticket_key).summary \o "'",
                               "", r, d.jira_calls + 1, 1), a, prompt(d))
    IN  IF r.raised # "" THEN ToolOut(w, None, r.raised, r, 0, 0)
        ELSE IF r.value = None THEN ToolOut(w, not_connected(ticket_key), "", r, 0, 0)
        ELSE Bind(get_ticket_details(w, ticket_key, env), LAMBDA d :
                [IF StartsWith(d.result, "Error")
                 THEN ToolOut(w, "Cannot summarize ticket: " \o d.result, "", r,
                              d.jira_calls, 0)
                 ELSE Bind(tool_ask_ollama(w, prompt(d),
                              "You are a helpful assistant specialized in summarizing Jira tickets. Keep your response concise and focus on the most important information.",
                              env.http[1]),
                           LAMBDA a : answered(d, a))
                 EXCEPT !.details_calls = 1, !.details = d.result])

\* tools/ticket_details.py:99-138 (jira_ollama_mcp.py:448-488)
analyze_ticket(w, ticket_key, question, env) ==
    LET r == tool_get_jira_client(w, ticket_key)
        prompt(d) == "Please answer the following question about this Jira ticket:\n\nQuestion: "
                     \o question \o "\n\nTicket details:\n" \o d.result
        issue == JiraIssue(ticket_key)
        answered(d, a) ==
            IF a.result.t # "str"
            THEN asked(ToolOut(w, "Error analyzing ticket: object has no attribute 'startswith'",
                               "", r, d.jira_calls, 1), a, prompt(d))
            ELSE IF usable_answer(a.result)
            THEN asked(ToolOut(w, "Analysis of " \o ticket_key \o " regarding '" \o question
                                  \o "':\n\n" \o a.result.v,
                               "", r, d.jira_calls, 1), a, prompt(d))
            ELSE asked(ToolOut(w, "Ollama analysis failed. Basic information about "
                                  \o ticket_key \o ":\n\nSummary: " \o issue.summary
                                  \o "\nStatus: " \o issue.status \o "\nAssignee: "
                                  \o (IF issue.assignee = None THEN "Unassigned"
                                      ELSE issue.assignee),
                               "", r, d.jira_calls + 1, 1), a, prompt(d))
    IN  IF r.raised # "" THEN ToolOut(w, None, r.raised, r, 0, 0)
        ELSE IF r.value = None THEN ToolOut(w, not_connected(ticket_key), "", r, 0, 0)
        ELSE Bind(get_ticket_details(w, ticket_key, env), LAMBDA d :
                [IF StartsWith(d.result, "Error")
                 THEN ToolOut(w, "Cannot analyze ticket: " \o d.result, "", r,
                              d.jira_calls, 0)
                 ELSE Bind(tool_ask_ollama(w, prompt(d),
                              "You are a helpful assistant specialized in analyzing Jira tickets. Provide specific, accurate answers based only on the information in the ticket.",
                              env.http[1]),
                           LAMBDA a : answered(d, a))
                 EXCEPT !.details_calls = 1, !.details = d.result])

\* names added to a directory listing: a name already there is overwritten
RECURSIVE save_files(_, _)
save_files(files, names) ==
    IF names = <<>> THEN files
    ELSE save_files(IF InList(names[1], files) THEN files ELSE Append(files, names[1]),
                    Tail(names))

\* tools/attachments.py:20-91 (jira_ollama_mcp.py:490-565).  The directory is
\* created before the attachments are looked at.
get_ticket_attachments(w, ticket_key, env) ==
    LET r == tool_get_jira_client(w, ticket_key)
        attached == JiraIssue(ticket_key).attachment
        names == [i \in 1..Len(attached) |-> sanitize_filename(attached[i])]
        made == [w.fs EXCEPT ![ticket_key] =
                    [exists |-> TRUE, files |-> save_files(w.fs[ticket_key].files, names)]]
    IN  IF ~validate_ticket_key(ticket_key)
        THEN ToolOut(w, "Error: Invalid ticket key format: " \o ticket_key, "", NotRouted, 0, 0)
        ELSE IF r.raised # "" THEN ToolOut(w, None, r.raised, r, 0, 0)
        ELSE IF r.value = None THEN ToolOut(w, not_connected(ticket_key), "", r, 0, 0)
        ELSE IF env.jira = "raise"
        THEN ToolOut(w, "Error downloading attachments from ticket " \o ticket_key \o ": "
                        \o JiraErrorText, "", r, 1, 0)
        ELSE IF names = <<>>
        THEN [ToolOut(w, "No attachments found for ticket " \o ticket_key \o ".", "", r, 1, 0)
                EXCEPT !.fs = made]
        ELSE [ToolOut(w, "Downloaded " \o ToString(Len(names)) \o " attachment(s) from ticket "
                         \o ticket_key \o ".\nLocation:\n- Relative path: attachments/"
                         \o ticket_key \o "\n- Absolute path: " \o attachments_base_dir \o "/"
                         \o ticket_key \o "\n"
                         \o (IF pdf_support THEN "PDF files are also supported."
                             ELSE "Install PyPDF2 to enable PDF support."),
                      "", r, 1 + Len(names), 0)
                EXCEPT !.fs = made]

\* tools/attachments.py:93-177 (jira_ollama_mcp.py:587-684); question is None
\* when the caller gives none
analyze_attachment(w, ticket_key, filename, question, env_http) ==
    LET r == tool_get_jira_client(w, ticket_key)
        file_path == attachments_base_dir \o "/" \o ticket_key \o "/" \o filename
        ext == file_ext(filename)
        content == FileContent(filename)
        prompt == IF question # None /\ question # ""
                  THEN "Please analyze the following file and answer this question: "
                       \o question \o "\n\nFile content:\n\n" \o content
                  ELSE "Please analyze the following file and provide key insights:\n\n"
                       \o content
        system_message ==
            IF question # None /\ question # ""
            THEN "You are a helpful assistant specialized in analyzing document contents. Answer the question specifically based on the file content provided."
            ELSE "You are a helpful assistant specialized in analyzing document contents. Summarize the key points and important information in the provided file."
        answered(a) ==
            IF a.result.t # "str"
            THEN asked(ToolOut(w, "Error analyzing attachment: object has no attribute 'startswith'",
                               "", r, 0, 1), a, prompt)
            ELSE IF usable_answer(a.result)
            THEN asked(ToolOut(w, "Analysis of attachment '" \o filename \o "' from "
                                  \o ticket_key \o ":\n\n" \o a.result.v,
                               "", r, 0, 1), a, prompt)
            ELSE asked(ToolOut(w, "Could not analyze attachment '" \o filename
                                  \o "' using Ollama. Please try again later.",
                               "", r, 0, 1), a, prompt)
    IN  [IF ~validate_ticket_key(ticket_key)
         THEN ToolOut(w, "Error: Invalid ticket key format: " \o ticket_key, "", NotRouted, 0, 0)
         ELSE IF filename_error(w.impl, filename) # ""
         THEN ToolOut(w, "Error: Invalid filename: " \o filename
                         \o filename_error(w.impl, filename), "", NotRouted, 0, 0)
         ELSE IF r.raised # "" THEN ToolOut(w, None, r.raised, r, 0, 0)
         ELSE IF r.value = None THEN ToolOut(w, not_connected(ticket_key), "", r, 0, 0)
         ELSE IF ~(w.fs[ticket_key].exists /\ InList(filename, w.fs[ticket_key].files))
         THEN ToolOut(w, "Error: Attachment file '" \o filename \o "' not found for ticket "
                         \o ticket_key \o ".\nExpected location: " \o file_path
                         \o "\n\nDid you download the attachments first? Use get_ticket_attachments('"
                         \o ticket_key \o "') to download.\nNote: If you're working in a different project directory, attachments are stored in:\n"
                         \o attachments_base_dir
                         \o "\n\nYou can customize this location by setting the MCP_ATTACHMENTS_PATH environment variable.",
                      "", r, 0, 0)
         ELSE IF FileSize(filename) > 10 * 1024 * 1024
         THEN ToolOut(w, "Error: Attachment file '" \o filename \o "' is too large ("
                         \o ToString(FileSize(filename))
                         \o " bytes) to analyze. Maximum size allowed is 10485760 bytes.",
                      "", r, 0, 0)
         ELSE IF ext \notin TEXT_FILE_EXTENSIONS /\ ext # ".pdf"
         THEN ToolOut(w, "Error: Unsupported file type '" \o ext
                         \o "'. Currently only text files and PDFs are supported.", "", r, 0, 0)
         ELSE IF ext = ".pdf" /\ ~pdf_support
         THEN ToolOut(w, "Error: PDF processing is not available. Please install PyPDF2 to analyze PDF attachments.",
                      "", r, 0, 0)
         ELSE Bind(tool_ask_ollama(w, prompt, system_message, env_http), answered)
           EXCEPT !.filename = filename]

\* tools/attachments.py:250-262: analyze_attachment on each file in turn, each
\* call working on the cache the one before left; env_http[i] is what the
\* POST of the i-th call does.  Yields the joined text and the totals.
RECURSIVE analyze_each(_, _, _, _, _, _)
analyze_each(w, ticket_key, files, question, env_http, i) ==
    IF i > Len(files)
    THEN [text |-> "", llm_calls |-> 0, cache |-> w.cache]
    ELSE Bind(analyze_attachment(w, ticket_key, files[i], question, env_http[i]),
              LAMBDA one :
                Bind(analyze_each([w EXCEPT !.cache = one.cache], ticket_key, files,
                                  question, env_http, i + 1),
                     LAMBDA rest :
                        [text |-> "--- " \o files[i] \o " ---\n" \o one.result \o "\n"
                                  \o (IF i < Len(files) THEN "\n" ELSE "") \o rest.text,
                         llm_calls |-> one.llm_calls + rest.llm_calls,
                         cache |-> rest.cache]))

\* [f for f in files if os.path.splitext(f)[1].lower() in supported_extensions]
supported_files(files) ==
    SelectSeq(files, LAMBDA f : file_ext(f) \in TEXT_FILE_EXTENSIONS
                                \/ (pdf_support /\ file_ext(f) = ".pdf"))

\* tools/attachments.py:179-264 (jira_ollama_mcp.py:686-775)
analyze_all_attachments(w, ticket_key, question, env) ==
    LET r == tool_get_jira_client(w, ticket_key)
        absent == ~w.fs[ticket_key].exists
        analyzed(w2, jira_calls) ==
            LET files == w2.fs[ticket_key].files
                supported == supported_files(files)
            IN  IF Len(files) > 20
                THEN ToolOut(w2, "Error: Too many attachments (" \o ToString(Len(files))
                                 \o ") found for ticket " \o ticket_key
                                 \o ". Maximum of 20 files can be processed at once.",
                             "", r, jira_calls, 0)
                ELSE IF files = <<>>
                THEN ToolOut(w2, "No attachments found for ticket " \o ticket_key \o ".",
                             "", r, jira_calls, 0)
                ELSE IF supported = <<>>
                THEN ToolOut(w2, "No supported attachments found for ticket " \o ticket_key
                                 \o (IF pdf_support
                                     THEN ". Only text files and PDFs are supported."
                                     ELSE ". Only text files are supported (PDF support not available)."),
                             "", r, jira_calls, 0)
                ELSE Bind(analyze_each(w2, ticket_key, supported, question, env.http, 1),
                          LAMBDA each :
                            [ToolOut(w2, "Analysis of all attachments for " \o ticket_key
                                         \o ":\n\n" \o each.text,
                                     "", r, jira_calls, each.llm_calls)
                                EXCEPT !.cache = each.cache])
    IN  IF ~validate_ticket_key(ticket_key)
        THEN ToolOut(w, "Error: Invalid ticket key format: " \o ticket_key, "", NotRouted, 0, 0)
        ELSE IF r.raised # "" THEN ToolOut(w, None, r.raised, r, 0, 0)
        ELSE IF r.value = None THEN ToolOut(w, not_connected(ticket_key), "", r, 0, 0)
        ELSE IF absent
        THEN Bind(get_ticket_attachments(w, ticket_key, env), LAMBDA download :
                IF StartsWith(download.result, "Error")
                THEN ToolOut([w EXCEPT !.fs = download.fs],
                             "Could not analyze attachments: " \o download.result,
                             "", r, download.jira_calls, 0)
                ELSE analyzed([w EXCEPT !.fs = download.fs], download.jira_calls))
        ELSE analyzed(w, 0)

\* "\n".join(results)
RECURSIVE join_lines(_)
join_lines(lines) ==
    IF lines = <<>> THEN ""
    ELSE lines[1] \o (IF Len(lines) > 1 THEN "\n" ELSE "") \o join_lines(Tail(lines))

\* the issues search_issues('assignee = "<user>"') returns from a backend
assigned_issues(label) ==
    <<[key |-> "NCSFM-123", summary |-> "Test ticket 1", status |-> "In Progress"],
      [key |-> "NCSFM-124", summary |-> "Test ticket 2", status |-> "To Do"]>>

\* tools/get_tickets.py:14-30 and 33-49: the lines one backend contributes.
\* search is what myself() and search_issues(jql) do: "issues", "empty" or
\* "raise".
backend_tickets(handle, label, search) ==
    IF handle = None THEN <<"Not connected to " \o label \o " Jira">>
    ELSE IF search = "raise"
    THEN <<"Error retrieving " \o label \o " Jira tickets: " \o JiraErrorText>>
    ELSE IF search = "empty" THEN <<>>
    ELSE <<"Your assigned tickets in " \o label \o " Jira:">>
         \o [i \in 1..Len(assigned_issues(label)) |->
                "- " \o assigned_issues(label)[i].key \o ": "
                \o assigned_issues(label)[i].summary
                \o " (" \o assigned_issues(label)[i].status \o ")"]
         \o <<"">>

\* The handles get_my_tickets reads: tools/get_tickets.py reads the names
\* primary_jira and secondary_jira its module imported (get_tickets.py:5);
\* jira_ollama_mcp.py:306-353 reads the globals nokia_jira and redhat_jira of
\* its own module.
tickets_handles(w) ==
    IF w.impl = "package" THEN <<w.imported.primary_jira, w.imported.secondary_jira>>
    ELSE <<w.primary, w.secondary>>

\* tools/get_tickets.py:7-54 (jira_ollama_mcp.py:306-353)
get_my_tickets(w, env) ==
    LET primary == tickets_handles(w)[1]
        secondary == tickets_handles(w)[2]
        results == backend_tickets(primary,
                                   IF w.impl = "package" THEN "Primary" ELSE "Nokia",
                                   env.primary_search)
                   \o backend_tickets(secondary,
                                      IF w.impl = "package" THEN "Secondary" ELSE "Red Hat",
                                      env.secondary_search)
    IN  ToolOut(w,
                IF results = <<>> THEN "Error: Not connected to any Jira instance"
                ELSE join_lines(results),
                "", NotRouted,
                (IF primary = None THEN 0 ELSE IF env.primary_search = "raise" THEN 1 ELSE 2)
                + (IF secondary = None THEN 0
                   ELSE IF env.secondary_search = "raise" THEN 1 ELSE 2),
                0)

\* Variant of the handler: with a key, every ticket directory is removed.
cleanup_attachments_wide(w, ticket_key) ==
    LET dirs == {k \in DOMAIN w.fs : w.fs[k].exists}
        removed_all == [k \in DOMAIN w.fs |-> [exists |-> FALSE, files |-> <<>>]]
        RECURSIVE total(_)
        total(ks) == IF ks = {} THEN 0
                     ELSE LET k == CHOOSE x \in ks : TRUE
                          IN  Len(w.fs[k].files) + total(ks \ {k})
    IN  IF ticket_key # None /\ ticket_key # ""
        THEN IF ~validate_ticket_key(ticket_key)
             THEN ToolOut(w, "Error: Invalid ticket key format: " \o ticket_key,
                          "", NotRouted, 0, 0)
             ELSE IF ~w.fs[ticket_key].exists
             THEN ToolOut(w, "No attachments found for ticket " \o ticket_key \o " at "
                             \o attachments_base_dir \o "/" \o ticket_key
                             \o ". Nothing to clean up.", "", NotRouted, 0, 0)
             ELSE [ToolOut(w, "Successfully deleted " \o ToString(Len(w.fs[ticket_key].files))
                              \o " attachment(s) for ticket " \o ticket_key \o " from "
                              \o attachments_base_dir \o "/" \o ticket_key \o ".",
                           "", NotRouted, 0, 0)
                     EXCEPT !.fs = removed_all]
        ELSE IF dirs # {}
        THEN [ToolOut(w, "Successfully deleted " \o ToString(total(dirs))
                         \o " attachment(s) from " \o ToString(Cardinality(dirs))
                         \o " ticket(s) in " \o attachments_base_dir \o ".",
                      "", NotRouted, 0, 0)
                EXCEPT !.fs = removed_all]
        ELSE ToolOut(w, "No ticket attachments found in " \o attachments_base_dir
                        \o ". Nothing to clean up.", "", NotRouted, 0, 0)

\* tools/attachments.py:266-339 (jira_ollama_mcp.py:777-851).  The base
\* directory exists (config.py:22 creates it) and is one of the expected
\* directories (config.py:19), so the two tests on it pass.  ticket_key is
\* None when the caller gives none.
cleanup_attachments(w, ticket_key) ==
    LET dirs == {k \in DOMAIN w.fs : w.fs[k].exists}
        removed_all == [k \in DOMAIN w.fs |-> [exists |-> FALSE, files |-> <<>>]]
        RECURSIVE total(_)
        total(ks) == IF ks = {} THEN 0
                     ELSE LET k == CHOOSE x \in ks : TRUE
                          IN  Len(w.fs[k].files) + total(ks \ {k})
    IN  IF ticket_key # None /\ ticket_key # ""
        THEN IF ~validate_ticket_key(ticket_key)
             THEN ToolOut(w, "Error: Invalid ticket key format: " \o ticket_key,
                          "", NotRouted, 0, 0)
             ELSE IF ~w.fs[ticket_key].exists
             THEN ToolOut(w, "No attachments found for ticket " \o ticket_key \o " at "
                             \o attachments_base_dir \o "/" \o ticket_key
                             \o ". Nothing to clean up.", "", NotRouted, 0, 0)
             ELSE [ToolOut(w, "Successfully deleted " \o ToString(Len(w.fs[ticket_key].files))
                              \o " attachment(s) for ticket " \o ticket_key \o " from "
                              \o attachments_base_dir \o "/" \o ticket_key \o ".",
                           "", NotRouted, 0, 0)
                     EXCEPT !.fs = [w.fs EXCEPT ![ticket_key] =
                                        [exists |-> FALSE, files |-> <<>>]]]
        ELSE IF dirs # {}
        THEN [ToolOut(w, "Successfully deleted " \o ToString(total(dirs))
                         \o " attachment(s) from " \o ToString(Cardinality(dirs))
                         \o " ticket(s) in " \o attachments_base_dir \o ".",
                      "", NotRouted, 0, 0)
                EXCEPT !.fs = removed_all]
        ELSE ToolOut(w, "No ticket attachments found in " \o attachments_base_dir
                        \o ". Nothing to clean up.", "", NotRouted, 0, 0)

(***************************************************************************)
(* Inputs.                                                                 *)
(***************************************************************************)
\* (prompt, system_message) pairs the tools send
Calls == {<<"a", None>>, <<"a", "bc">>, <<"ab", "c">>, <<"b", "">>}

\* decoded bodies of a 200 response
Bodies == {JDict(<<Field("response", JStr("v1"))>>),
           JDict(<<Field("response", JStr("v2"))>>)}

\* bodies of a 200 response that response.json() cannot decode
RawTexts == {"<html>Bad Gateway</html>"}

HttpOutcomes ==
    {HttpOk(b) : b \in Bodies} \cup {HttpStatus("500"), HttpRaise("Connection failed")}
    \cup {HttpBadJson(r) : r \in RawTexts}

\* ticket keys the tools pass to the router
TicketKeys == {None, "", "CNV-1", "OCP-22", "RH-7x", "ABC-1", "not-a-valid-key",
               "CNV", "cnv-1", "CNV-x"}

\* values of SECONDARY_PROJECT_PREFIXES and REDHAT_PROJECT_PREFIXES (None: unset)
SecondaryPrefixEnv == {None, "CNV", "CNV,OCP", ""}
RedhatPrefixEnv == {None, "RH"}

\* fields a decoded body can hold
ExtractFields ==
    {Field("response", JStr("Test response")), Field("response", JStr("")),
     Field("response", JNum("42")),
     Field("message", JDict(<<Field("content", JStr("chat text"))>>)),
     Field("message", JDict(<<Field("role", JStr("assistant"))>>)),
     Field("message", JStr("a message that is no object")),
     Field("model", JStr("llama3")),
     Field("text", JStr("0123456789")),
     Field("text", JStr("0123456789a")),
     Field("output", JStr("the first long string")),
     Field("done", JNum("1"))}

\* what response.json() can return: objects of up to two fields, a string, a number
ExtractBodies ==
    {JDict(<<>>), JStr("just a string"), JNum("7")}
    \cup {JDict(<<f>>) : f \in ExtractFields}
    \cup {JDict(<<p[1], p[2]>>) :
             p \in {q \in ExtractFields \X ExtractFields : q[1].name # q[2].name}}

\* the ticket keys the tools are called with: one of the secondary backend,
\* one of no backend's list and a malformed one; summarize_ticket and
\* analyze_ticket are called with the first
ToolKeys == {"CNV-1", "ABC-1", "CNV-1x"}
SummaryKeys == {"CNV-1"}

\* what a Jira call does, and what myself() and search_issues() do together
JiraOutcomes == {"ok", "raise"}
SearchOutcomes == {"issues", "empty", "raise"}

\* what the POST of a tool's ask_ollama call does
ToolHttpOutcomes == {HttpOk(JDict(<<Field("response", JStr("v1"))>>)), HttpStatus("500")}

\* the same for summarize_ticket and analyze_ticket, with a body that is no JSON
TicketHttpOutcomes == ToolHttpOutcomes \cup {HttpBadJson("<html>Bad Gateway</html>")}

\* the question and the file names the tools are called with
ToolQuestion == "What failed?"
ToolFilenames == {"log.txt", "../log.txt", "image.png", "core.log"}

(***************************************************************************)
(* Initial states.                                                         *)
(***************************************************************************)
NoCall == [prompt |-> None, system_message |-> None,
           http |-> NoHttp, result |-> JStr(""), path |-> "none", posts |-> 0,
           removed |-> {}]

NoRoute == [impl |-> "none", key |-> None, result |-> Returned(None)]

NoStartup == Startup("none", None, None, <<>>, "skipped", "skipped", "skipped", "skipped", "")

\* the two programs of the repository: the jira_mcp package and jira_ollama_mcp.py
Impls == {"package", "single_file"}

\* the requests served at the same time
Threads == {1, 2}

\* (prompt, system_message) pairs and POST outcomes of the concurrent calls
ConcCalls == {<<"a", None>>, <<"b", "">>}
ConcHttpOutcomes == {HttpOk(JDict(<<Field("response", JStr("v1"))>>)), HttpStatus("500")}

\* a thread that is not inside ask_ollama
Idle == [pc |-> "idle", prompt |-> None, system_message |-> None,
         text |-> JStr(""), oldest |-> None]

ConcParked == threads = [t \in Threads |-> Idle]

NoExtraction == [body |-> JStr(""), text |-> JStr(""), applied |-> FALSE]

ExtractParked == extraction = NoExtraction

\* no tool has been called
NoTool == [name |-> "none", key |-> None, result |-> None, raised |-> "",
           route |-> [raised |-> "", value |-> "not called"],
           jira_calls |-> 0, llm_calls |-> 0, details_calls |-> 0, details |-> None,
           filename |-> None, prompt |-> None, llm_path |-> "none"]

\* the ticket directories under attachments_base_dir: none exists
TicketDirs == ToolKeys
NoAttachments == [k \in TicketDirs |-> [exists |-> FALSE, files |-> <<>>]]

\* tools/get_tickets.py:5 binds the two names when the tools package is
\* imported (main.py:11), before initialize_jira_clients runs (main.py:72)
ImportedHandles == [primary_jira |-> None, secondary_jira |-> None]

ToolParked ==
    /\ tool = NoTool
    /\ attachments = NoAttachments
    /\ imported = ImportedHandles

CacheInit ==
    /\ ollama_cache = <<>>
    /\ ollama_cache_size \in 0..MaxCacheSize
    /\ ollama_cache_ttl \in 1..MaxTTL
    /\ now = 0
    /\ last = NoCall

CacheParked ==
    /\ ollama_cache = <<>>
    /\ ollama_cache_size = MaxCacheSize
    /\ ollama_cache_ttl = MaxTTL
    /\ now = 0
    /\ last = NoCall

RouterInit ==
    /\ primary_jira = None
    /\ secondary_jira = None
    /\ \E env \in SecondaryPrefixEnv, rh \in RedhatPrefixEnv :
          /\ secondary_project_prefixes = load_secondary_project_prefixes(env)
          /\ redhat_project_prefixes =
                load_redhat_project_prefixes(rh, load_secondary_project_prefixes(env))
    /\ jira_env \in [primary_pat : BOOLEAN, primary_username : BOOLEAN,
                     primary_password : BOOLEAN, secondary_pat : BOOLEAN]
    /\ phase = "boot"
    /\ startup = NoStartup
    /\ routed = NoRoute

RouterParked ==
    /\ primary_jira = None
    /\ secondary_jira = None
    /\ secondary_project_prefixes = load_secondary_project_prefixes(None)
    /\ redhat_project_prefixes =
          load_redhat_project_prefixes(None, load_secondary_project_prefixes(None))
    /\ jira_env = [primary_pat |-> FALSE, primary_username |-> FALSE,
                   primary_password |-> FALSE, secondary_pat |-> FALSE]
    /\ phase = "boot"
    /\ startup = NoStartup
    /\ routed = NoRoute

(***************************************************************************)
(* Actions.                                                                *)
(***************************************************************************)
\* response.json() returned extraction.body; the text is extracted from it.
ExtractResponseText ==
    /\ ~extraction.applied
    /\ extraction' = [extraction EXCEPT !.text = _extract_response_text(extraction.body),
                                        !.applied = TRUE]
    /\ UNCHANGED cacheVars
    /\ UNCHANGED routerVars
    /\ UNCHANGED concVars
    /\ UNCHANGED toolVars

\* A tool calls ask_ollama(prompt, system_message).  Both readings of
\* time.time() return now: a POST that takes time is a Tick followed by this
\* action, since an entry that is expired at the lookup stays expired.
AskOllama ==
    \E call \in Calls :
        \* a cache hit makes no POST: there is no outcome of one to choose
        \E http \in IF ask_ollama(ollama_cache, ollama_cache_size, ollama_cache_ttl,
                                  call[1], call[2], now, now, NoHttp).posts = 0
                     THEN {NoHttp} ELSE HttpOutcomes :
            /\ LET r == ask_ollama(ollama_cache, ollama_cache_size, ollama_cache_ttl,
                                   call[1], call[2], now, now, http)
               IN  /\ ollama_cache' = r.cache
                   /\ last' = [prompt |-> call[1], system_message |-> call[2],
                               http |-> http, result |-> r.result, path |-> r.path,
                               posts |-> r.posts,
                               removed |-> CacheKeys(ollama_cache) \ CacheKeys(r.cache)]
            /\ UNCHANGED <<ollama_cache_size, ollama_cache_ttl, now>>
            /\ UNCHANGED routerVars
            /\ UNCHANGED extractVars
            /\ UNCHANGED toolVars
    /\ UNCHANGED concVars

\* Time passes between two tool calls.
Tick ==
    /\ now < MaxTime
    /\ now' = now + 1
    /\ UNCHANGED <<ollama_cache, ollama_cache_size, ollama_cache_ttl, last>>
    /\ UNCHANGED routerVars
    /\ UNCHANGED extractVars
    /\ UNCHANGED toolVars
    /\ UNCHANGED concVars

\* initialize_jira_clients() (the module-level start-up code of jira_ollama_mcp.py)
InitializeJiraClients ==
    /\ phase = "boot"
    /\ \E impl \in Impls, pb \in {"ok", "raise"}, pm \in {"ok", "raise"},
          sb \in {"ok", "raise"}, sm \in {"ok", "raise"} :
          LET s == initialize_jira_clients(impl, jira_env, pb, pm, sb, sm)
          IN  /\ primary_jira' = s.primary
              /\ secondary_jira' = s.secondary
              /\ startup' = s
    /\ phase' = "serving"
    /\ UNCHANGED <<secondary_project_prefixes, redhat_project_prefixes, jira_env, routed>>
    /\ UNCHANGED cacheVars
    /\ UNCHANGED extractVars
    /\ UNCHANGED toolVars
    /\ UNCHANGED concVars

\* A tool of the jira_mcp package calls get_jira_client(ticket_key).
Route ==
    /\ phase = "serving"
    /\ startup.impl = "package"
    /\ \E key \in TicketKeys :
          routed' = [impl |-> "package", key |-> key,
                     result |-> get_jira_client(key, primary_jira, secondary_jira,
                                                secondary_project_prefixes,
                                                redhat_project_prefixes)]
    /\ UNCHANGED <<primary_jira, secondary_jira, secondary_project_prefixes,
                   redhat_project_prefixes, jira_env, phase, startup>>
    /\ UNCHANGED cacheVars
    /\ UNCHANGED extractVars
    /\ UNCHANGED toolVars
    /\ UNCHANGED concVars

\* A tool of jira_ollama_mcp.py calls its get_jira_client(ticket_key).
RouteSingleFile ==
    /\ phase = "serving"
    /\ startup.impl = "single_file"
    /\ \E key \in TicketKeys :
          routed' = [impl |-> "single_file", key |-> key,
                     result |-> get_jira_client_single_file(key, primary_jira, secondary_jira,
                                                            secondary_project_prefixes,
                                                            redhat_project_prefixes)]
    /\ UNCHANGED <<primary_jira, secondary_jira, secondary_project_prefixes,
                   redhat_project_prefixes, jira_env, phase, startup>>
    /\ UNCHANGED cacheVars
    /\ UNCHANGED extractVars
    /\ UNCHANGED toolVars
    /\ UNCHANGED concVars

(***************************************************************************)
(* Specifications: the cache under every call sequence, and the router     *)
(* under every start-up outcome.                                           *)
(***************************************************************************)
Init == CacheInit /\ RouterParked /\ ExtractParked /\ ConcParked /\ ToolParked
Next == AskOllama \/ Tick
Spec == Init /\ [][Next]_vars

RouterSpecInit == RouterInit /\ CacheParked /\ ExtractParked /\ ConcParked /\ ToolParked
RouterNext == InitializeJiraClients \/ Route \/ RouteSingleFile
RouterSpec == RouterSpecInit /\ [][RouterNext]_vars

(***************************************************************************)
(* ask_ollama served by several threads at once.  The function takes no    *)
(* lock: a thread can be pre-empted between any two statements that touch  *)
(* ollama_cache, and each such statement is one step.                      *)
(***************************************************************************)
ThreadKey(t) == cache_key(threads[t].prompt, threads[t].system_message)

\* the thread moves to pc, the other fields as given
Goto(t, pc) == threads' = [threads EXCEPT ![t].pc = pc]
Leave(t) == threads' = [threads EXCEPT ![t] = Idle]

ConcFrame ==
    /\ UNCHANGED <<ollama_cache_size, ollama_cache_ttl, now, last>>
    /\ UNCHANGED routerVars
    /\ UNCHANGED extractVars
    /\ UNCHANGED toolVars

\* client.py:14-26: a request enters ask_ollama
ConcCall ==
    \E t \in Threads, call \in ConcCalls :
        /\ threads[t].pc = "idle"
        /\ threads' = [threads EXCEPT ![t] = [Idle EXCEPT !.pc = "lookup",
                                                          !.prompt = call[1],
                                                          !.system_message = call[2]]]
        /\ UNCHANGED ollama_cache
        /\ ConcFrame

\* client.py:29: if cache_key in ollama_cache
ConcLookup ==
    \E t \in Threads :
        /\ threads[t].pc = "lookup"
        /\ Goto(t, IF InCache(ollama_cache, ThreadKey(t)) THEN "read" ELSE "post")
        /\ UNCHANGED ollama_cache
        /\ ConcFrame

\* client.py:30-33: the entry is read (KeyError leaves the function when it is
\* gone) and returned when it is valid
ConcRead ==
    \E t \in Threads :
        /\ threads[t].pc = "read"
        /\ IF ~InCache(ollama_cache, ThreadKey(t)) THEN Leave(t)
           ELSE IF IsValid(CacheGet(ollama_cache, ThreadKey(t)).timestamp, now,
                           ollama_cache_ttl)
           THEN Leave(t)
           ELSE Goto(t, "expire")
        /\ UNCHANGED ollama_cache
        /\ ConcFrame

\* client.py:36: del ollama_cache[cache_key] (KeyError leaves the function
\* when the entry is gone)
ConcExpire ==
    \E t \in Threads :
        /\ threads[t].pc = "expire"
        /\ IF InCache(ollama_cache, ThreadKey(t))
           THEN /\ ollama_cache' = CacheDel(ollama_cache, ThreadKey(t))
                /\ Goto(t, "post")
           ELSE /\ UNCHANGED ollama_cache
                /\ Leave(t)
        /\ ConcFrame

\* client.py:54-70 and 83-93: the POST; a failure returns its error string
ConcPost ==
    \E t \in Threads, http \in ConcHttpOutcomes :
        /\ threads[t].pc = "post"
        /\ IF http.kind = "ok"
           THEN threads' = [threads EXCEPT ![t].pc = "check",
                                           ![t].text = _extract_response_text(http.body)]
           ELSE Leave(t)
        /\ UNCHANGED ollama_cache
        /\ ConcFrame

\* client.py:73: if len(ollama_cache) >= config.ollama_cache_size
ConcCheckFull ==
    \E t \in Threads :
        /\ threads[t].pc = "check"
        /\ Goto(t, IF CacheFull(ollama_cache, ollama_cache_size) THEN "pick" ELSE "insert")
        /\ UNCHANGED ollama_cache
        /\ ConcFrame

\* client.py:75: oldest_key = min(...); ValueError on an empty cache is caught
\* at client.py:91 and the call returns an error string
ConcPickOldest ==
    \E t \in Threads :
        /\ threads[t].pc = "pick"
        /\ IF ollama_cache = <<>>
           THEN Leave(t)
           ELSE threads' = [threads EXCEPT ![t].pc = "evict",
                                           ![t].oldest = oldest_key(ollama_cache)]
        /\ UNCHANGED ollama_cache
        /\ ConcFrame

\* client.py:76: del ollama_cache[oldest_key]; KeyError when another thread
\* removed that entry is caught at client.py:91
ConcEvict ==
    \E t \in Threads :
        /\ threads[t].pc = "evict"
        /\ IF InCache(ollama_cache, threads[t].oldest)
           THEN /\ ollama_cache' = CacheDel(ollama_cache, threads[t].oldest)
                /\ Goto(t, "insert")
           ELSE /\ UNCHANGED ollama_cache
                /\ Leave(t)
        /\ ConcFrame

\* client.py:79-82: ollama_cache[cache_key] = (time.time(), response_text); return
ConcInsert ==
    \E t \in Threads :
        /\ threads[t].pc = "insert"
        /\ ollama_cache' = CacheSet(ollama_cache, ThreadKey(t), now, threads[t].text)
        /\ Leave(t)
        /\ ConcFrame

\* Time passes while requests are being served.
ConcTick ==
    /\ now < MaxTime
    /\ now' = now + 1
    /\ UNCHANGED <<ollama_cache, ollama_cache_size, ollama_cache_ttl, last, threads>>
    /\ UNCHANGED routerVars
    /\ UNCHANGED extractVars
    /\ UNCHANGED toolVars

ConcInit == CacheInit /\ RouterParked /\ ExtractParked /\ ConcParked /\ ToolParked
ConcNext ==
    \/ ConcCall \/ ConcLookup \/ ConcRead \/ ConcExpire \/ ConcPost
    \/ ConcCheckFull \/ ConcPickOldest \/ ConcEvict \/ ConcInsert \/ ConcTick
ConcSpec == ConcInit /\ [][ConcNext]_vars

\* _extract_response_text on every body of ExtractBodies
ExtractInit ==
    /\ \E body \in ExtractBodies : extraction = [NoExtraction EXCEPT !.body = body]
    /\ CacheParked
    /\ RouterParked
    /\ ConcParked
    /\ ToolParked
ExtractNext == ExtractResponseText
ExtractSpec == ExtractInit /\ [][ExtractNext]_vars

TypeOK ==
    /\ Len(ollama_cache) >= 0
    /\ now \in 0..MaxTime
    /\ phase \in {"boot", "serving"}

(***************************************************************************)
(* The server handling tool calls (main.py:72-79): start-up is over, each  *)
(* step is one call of one of the eight tools.                             *)
(***************************************************************************)
\* what the handlers work on
World ==
    [impl |-> startup.impl, primary |-> primary_jira, secondary |-> secondary_jira,
     sec_prefixes |-> secondary_project_prefixes, rh_prefixes |-> redhat_project_prefixes,
     cache |-> ollama_cache, size |-> ollama_cache_size, ttl |-> ollama_cache_ttl,
     t |-> now, fs |-> attachments, imported |-> imported]

\* Variant: a handler whose Jira call failed drops the handle it used.
handles_after_tool_reset(w, out) ==
    IF out.result # None /\ StartsWith(out.result, "Error retrieving ticket details")
    THEN <<IF out.route.value = w.primary THEN None ELSE w.primary,
           IF out.route.value = w.secondary THEN None ELSE w.secondary>>
    ELSE <<w.primary, w.secondary>>

\* tools/*.py: no handler assigns primary_jira or secondary_jira (nokia_jira,
\* redhat_jira); only initialize_jira_clients does (jira_client/client.py:18)
handles_after_tool(w, out) == <<w.primary, w.secondary>>

\* the effect of a tool call that did out
Invoke(name, ticket_key, out) ==
    /\ phase = "serving"
    /\ tool' = [name |-> name, key |-> ticket_key, result |-> out.result,
                raised |-> out.raised, route |-> out.route,
                jira_calls |-> out.jira_calls, llm_calls |-> out.llm_calls,
                details_calls |-> out.details_calls, details |-> out.details,
                filename |-> out.filename, prompt |-> out.prompt,
                llm_path |-> out.llm_path]
    /\ ollama_cache' = out.cache
    /\ attachments' = out.fs
    /\ primary_jira' = handles_after_tool(World, out)[1]
    /\ secondary_jira' = handles_after_tool(World, out)[2]
    /\ routed' = IF out.route.value = "not called" THEN routed
                 ELSE [impl |-> startup.impl, key |-> ticket_key, result |-> out.route]
    /\ UNCHANGED <<ollama_cache_size, ollama_cache_ttl, now, last>>
    /\ UNCHANGED <<secondary_project_prefixes, redhat_project_prefixes, jira_env, phase,
                   startup, imported>>
    /\ UNCHANGED extractVars
    /\ UNCHANGED concVars

\* The outcomes to choose from for the calls a handler makes: a handler that
\* makes no Jira call, or whose ask_ollama call makes no POST, has no outcome
\* of one to choose.
JiraChoices(out) == IF out.jira_calls = 0 THEN {"ok"} ELSE JiraOutcomes
HttpChoices(out, outcomes) ==
    IF out.llm_calls = 0 \/ out.llm_path = "hit" THEN {NoHttp} ELSE outcomes
SearchChoices(handle) == IF handle = None THEN {"empty"} ELSE SearchOutcomes

GetMyTickets ==
    \E ps \in SearchChoices(tickets_handles(World)[1]),
       ss \in SearchChoices(tickets_handles(World)[2]) :
        \E out \in {get_my_tickets(World, [primary_search |-> ps,
                                           secondary_search |-> ss])} :
            Invoke("get_my_tickets", None, out)

GetTicketDetails ==
    \E key \in ToolKeys :
        \E quiet \in {get_ticket_details(World, key, [jira |-> "ok", comments |-> "ok"])} :
            \E jira \in JiraChoices(quiet) :
                \E comments \in IF jira = "ok" THEN JiraChoices(quiet) ELSE {"ok"} :
                    \E out \in {get_ticket_details(World, key,
                                                   [jira |-> jira, comments |-> comments])} :
                        Invoke("get_ticket_details", key, out)

SummarizeTicket ==
    \E key \in SummaryKeys :
        \E quiet \in {summarize_ticket(World, key, [jira |-> "ok", comments |-> "ok",
                                                    http |-> <<NoHttp>>])} :
            \E jira \in JiraChoices(quiet) :
                \E http \in IF jira = "ok" THEN HttpChoices(quiet, TicketHttpOutcomes)
                            ELSE {NoHttp} :
                    \E out \in {summarize_ticket(World, key,
                                                 [jira |-> jira, comments |-> "ok",
                                                  http |-> <<http>>])} :
                        Invoke("summarize_ticket", key, out)

AnalyzeTicket ==
    \E key \in SummaryKeys :
        \E quiet \in {analyze_ticket(World, key, ToolQuestion,
                                     [jira |-> "ok", comments |-> "ok",
                                      http |-> <<NoHttp>>])} :
            \E jira \in JiraChoices(quiet) :
                \E http \in IF jira = "ok" THEN HttpChoices(quiet, TicketHttpOutcomes)
                            ELSE {NoHttp} :
                    \E out \in {analyze_ticket(World, key, ToolQuestion,
                                               [jira |-> jira, comments |-> "ok",
                                                http |-> <<http>>])} :
                        Invoke("analyze_ticket", key, out)

GetTicketAttachments ==
    \E key \in ToolKeys :
        \E quiet \in {get_ticket_attachments(World, key, [jira |-> "ok"])} :
            \E jira \in JiraChoices(quiet) :
                \E out \in {get_ticket_attachments(World, key, [jira |-> jira])} :
                    Invoke("get_ticket_attachments", key, out)

AnalyzeAttachment ==
    \E key \in ToolKeys, filename \in ToolFilenames :
        \E quiet \in {analyze_attachment(World, key, filename, None, NoHttp)} :
            \E http \in HttpChoices(quiet, ToolHttpOutcomes) :
                \E out \in {analyze_attachment(World, key, filename, None, http)} :
                    Invoke("analyze_attachment", key, out)

AnalyzeAllAttachments ==
    \E key \in ToolKeys :
        \E quiet \in {analyze_all_attachments(World, key, None,
                                              [jira |-> "ok",
                                               http |-> <<NoHttp, NoHttp>>])} :
            \E jira \in JiraChoices(quiet) :
                \E h1, h2 \in IF jira = "ok" /\ quiet.llm_calls > 0
                              THEN ToolHttpOutcomes ELSE {NoHttp} :
                    \E out \in {analyze_all_attachments(World, key, None,
                                                        [jira |-> jira,
                                                         http |-> <<h1, h2>>])} :
                        Invoke("analyze_all_attachments", key, out)

CleanupAttachments ==
    \E key \in ToolKeys \cup {None, ""} :
        \E out \in {cleanup_attachments(World, key)} :
            Invoke("cleanup_attachments", key, out)

\* the state after start-up: both backends are configured and each came
\* up or failed to.  No tool of the package reads the primary handle
\* (get_jira_client raises before it returns it, get_my_tickets reads the
\* imported names), so the package is started with the primary up.
ToolInit ==
    /\ \E impl \in Impls, pb \in {"ok", "raise"}, sb \in {"ok", "raise"} :
          /\ impl = "package" => pb = "ok"
          /\ jira_env = [primary_pat |-> TRUE, primary_username |-> FALSE,
                         primary_password |-> FALSE, secondary_pat |-> TRUE]
          /\ startup = initialize_jira_clients(impl, jira_env, pb, "ok", sb, "ok")
          /\ primary_jira = startup.primary
          /\ secondary_jira = startup.secondary
    /\ secondary_project_prefixes = load_secondary_project_prefixes(None)
    /\ redhat_project_prefixes =
          load_redhat_project_prefixes(None, load_secondary_project_prefixes(None))
    /\ phase = "serving"
    /\ routed = NoRoute
    /\ ollama_cache = <<>>
    /\ ollama_cache_size = ToolCacheSize
    /\ ollama_cache_ttl = MaxTTL
    /\ now = 0
    /\ last = NoCall
    /\ ToolParked
    /\ ExtractParked
    /\ ConcParked
ToolNext ==
    \/ GetMyTickets \/ GetTicketDetails \/ SummarizeTicket \/ AnalyzeTicket
    \/ GetTicketAttachments \/ AnalyzeAttachment \/ AnalyzeAllAttachments
    \/ CleanupAttachments
ToolSpec == ToolInit /\ [][ToolNext]_vars

(***************************************************************************)
(* Properties of the response cache (specification Spec).                  *)
(***************************************************************************)
\* the key of the most recent call, and of the call a step makes
LastKey == cache_key(last.prompt, last.system_message)
NextKey == cache_key(last'.prompt, last'.system_message)

\* a step that is a call of ask_ollama: the clock stands still
AskStep == now' = now

\* the ways the POST fails
FailureKinds == {"transport", "status", "badjson"}

\* what the callers of ask_ollama take for a failure (ticket_details.py:90,126)
IsErrorText(r) == r.t = "str" /\ StartsWith(r.v, "Error")

\* c without its i-th entry
WithoutIndex(c, i) == [j \in 1..(Len(c) - 1) |-> IF j < i THEN c[j] ELSE c[j + 1]]

\* C1: after any sequence of completed ask_ollama calls the cache holds at
\* most ollama_cache_size entries.
C1_CacheNeverExceedsMaxEntries == Len(ollama_cache) <= ollama_cache_size

\* a call stored its response into a full cache, evicting another key's entry
C1_Witness ==
    /\ last.path = "stored"
    /\ ollama_cache_size >= 1
    /\ Len(ollama_cache) = ollama_cache_size
    /\ last.removed # {}
    /\ LastKey \notin last.removed

\* C2: an insertion into a cache that holds ollama_cache_size entries (once
\* the caller's own expired entry is removed) evicts exactly one entry, the
\* first in insertion order among those of the oldest timestamp; an
\* insertion into a cache holding fewer evicts nothing.  The new entry goes
\* last and every other entry stays as and where it was.
C2_EvictsExactlyTheOldest ==
    [][(AskStep /\ last'.path = "stored") =>
          LET mid == CacheDel(ollama_cache, NextKey)
              entry == [key |-> NextKey, timestamp |-> now, response |-> last'.result]
          IN  IF Len(mid) < ollama_cache_size
              THEN ollama_cache' = Append(mid, entry)
              ELSE \E i \in 1..Len(mid) :
                      /\ \A j \in 1..Len(mid) : mid[i].timestamp <= mid[j].timestamp
                      /\ \A j \in 1..(i - 1) : mid[j].timestamp > mid[i].timestamp
                      /\ ollama_cache' = Append(WithoutIndex(mid, i), entry)]_vars

\* max_entries = 2 and prompts A, B, C: A was evicted, B and C remain
C2_Witness ==
    /\ ollama_cache_size = 2
    /\ last.path = "stored"
    /\ last.removed = {cache_key("a", None)}
    /\ [i \in 1..Len(ollama_cache) |-> ollama_cache[i].key]
          = <<cache_key("ab", "c"), cache_key("b", "")>>

\* C3: when a call returned a response (computed and stored, or cached), the
\* entry is in the cache, and the next call with the same (prompt,
\* system_message), made while now - inserted_at < ttl, makes no POST and
\* returns the same value.
C3_SecondCallIsAHit ==
    [][(/\ AskStep
        /\ last.path \in {"stored", "hit"}
        /\ last'.prompt = last.prompt
        /\ last'.system_message = last.system_message) =>
          /\ InCache(ollama_cache, LastKey)
          /\ CacheGet(ollama_cache, LastKey).response = last.result
          /\ (now - CacheGet(ollama_cache, LastKey).timestamp < ollama_cache_ttl =>
                /\ last'.posts = 0
                /\ last'.path = "hit"
                /\ last'.result = last.result
                /\ ollama_cache' = ollama_cache)]_vars

\* a call answered from the cache
C3_Witness ==
    /\ last.path = "hit"
    /\ last.posts = 0
    /\ InCache(ollama_cache, LastKey)
    /\ now - CacheGet(ollama_cache, LastKey).timestamp < ollama_cache_ttl

\* C4: a call whose key has an entry with now - inserted_at >= ttl removes
\* that entry and makes exactly one POST; what it returns comes from that
\* POST, never from the expired entry.
C4_ExpiredEntryIsRecomputed ==
    [][(/\ AskStep
        /\ InCache(ollama_cache, NextKey)
        /\ now - CacheGet(ollama_cache, NextKey).timestamp >= ollama_cache_ttl) =>
          /\ last'.posts = 1
          /\ last'.path # "hit"
          /\ last'.http.kind = "ok" => last'.result = _extract_response_text(last'.http.body)
          /\ last'.http.kind # "ok" => ~InCache(ollama_cache', NextKey)
          /\ InCache(ollama_cache', NextKey) =>
                CacheGet(ollama_cache', NextKey).timestamp = now]_vars

\* an expired entry was removed by a call whose POST then failed
C4_Witness ==
    /\ last.posts = 1
    /\ LastKey \in last.removed

\* C5: a call whose POST fails (exception, status other than 200, body that
\* is not JSON) leaves no entry for its key and leaves every other entry as
\* it was; the next call with the same pair makes a POST again.
C5_FailuresAreNotCached ==
    [][AskStep =>
          /\ last'.http.kind \in FailureKinds =>
                /\ ~InCache(ollama_cache', NextKey)
                /\ ollama_cache' = CacheDel(ollama_cache, NextKey)
          /\ (/\ last.http.kind \in FailureKinds
              /\ last'.prompt = last.prompt
              /\ last'.system_message = last.system_message) => last'.posts = 1]_vars

\* a failed call on a full cache: nothing was evicted
C5_Witness ==
    /\ last.http.kind = "status"
    /\ ollama_cache_size >= 1
    /\ Len(ollama_cache) = ollama_cache_size
    /\ last.removed = {}

\* C6: every failure of the POST reaches the caller as an error, never as a
\* response text.
C6_FailuresSurfaceAsErrors ==
    last.http.kind \in FailureKinds => IsErrorText(last.result)

\* C7: whenever the POST succeeds, ask_ollama returns the extracted response
\* and the cache holds it, for every ollama_cache_size.
C7_SuccessIsReturnedAndStored ==
    last.http.kind = "ok" =>
        /\ last.result = _extract_response_text(last.http.body)
        /\ InCache(ollama_cache, LastKey)
        /\ CacheGet(ollama_cache, LastKey).response = last.result

(***************************************************************************)
(* Properties of the router (specification RouterSpec).                    *)
(***************************************************************************)
\* the project prefix of the routed key, None when none can be extracted
RoutedPrefix == IF routed.key = None THEN None ELSE re_match_project(routed.key)

\* the prefix is one of the secondary backend's
InSecondaryList(prefix) ==
    /\ prefix # None
    /\ \/ InList(prefix, secondary_project_prefixes)
       \/ InList(prefix, redhat_project_prefixes)

\* C8: a key whose prefix is in the secondary backend's list is routed to the
\* secondary handle, None when that backend is unavailable, and never to the
\* primary handle.
C8_SecondaryPrefixRoutesToSecondary ==
    (routed.impl # "none" /\ InSecondaryList(RoutedPrefix)) =>
        /\ routed.result = Returned(secondary_jira)
        /\ routed.result.value \notin {PrimaryToken, PrimaryBasic}

\* a secondary key routed while only the primary is available
C8_Witness ==
    /\ routed.impl = "package"
    /\ InSecondaryList(RoutedPrefix)
    /\ primary_jira # None
    /\ secondary_jira = None
    /\ routed.result = Returned(None)

\* C9: a well-formed key whose prefix is in no backend's list is routed to the
\* primary handle, None when the primary is unavailable.
C9_UnmatchedPrefixRoutesToPrimary ==
    (routed.impl # "none" /\ RoutedPrefix # None /\ ~InSecondaryList(RoutedPrefix)) =>
        routed.result = Returned(primary_jira)

\* C10: a non-empty key from which no prefix can be extracted is routed to
\* the primary handle, None when the primary is unavailable.
C10_NoPrefixRoutesToPrimary ==
    (routed.impl # "none" /\ routed.key \notin {None, ""} /\ RoutedPrefix = None) =>
        routed.result = Returned(primary_jira)

\* C11: get_jira_client never raises: for every key and every router state a
\* call returns a handle or None, and None when no backend is available.
C11_RouteNeverRaises ==
    routed.impl # "none" =>
        /\ routed.result.raised = ""
        /\ routed.result.value \in {None, primary_jira, secondary_jira}
        /\ (primary_jira = None /\ secondary_jira = None) => routed.result = Returned(None)

\* what the backend's construction or connection test did
PrimaryFailed == startup.primary_build = "raise" \/ startup.primary_myself = "raise"
SecondaryFailed == startup.secondary_build = "raise" \/ startup.secondary_myself = "raise"
PrimaryConfigured ==
    jira_env.primary_pat \/ (jira_env.primary_username /\ jira_env.primary_password)

\* C13: start-up attempts every configured backend; a backend whose
\* construction or myself() fails is left with the handle None, no failure
\* leaves initialize_jira_clients, and the other backend becomes available
\* exactly when its own construction and myself() succeed.
C13_StartupToleratesPartialAvailability ==
    phase = "serving" =>
        /\ startup.raised = ""
        /\ PrimaryConfigured => startup.primary_build # "skipped"
        /\ jira_env.secondary_pat => startup.secondary_build # "skipped"
        /\ PrimaryFailed => primary_jira = None
        /\ SecondaryFailed => secondary_jira = None
        /\ (PrimaryConfigured /\ ~PrimaryFailed) => primary_jira \in {PrimaryToken, PrimaryBasic}
        /\ (jira_env.secondary_pat /\ ~SecondaryFailed) => secondary_jira = SecondaryToken

\* the primary's connection test failed and the secondary is available
C13_Witness ==
    /\ phase = "serving"
    /\ startup.primary_myself = "raise"
    /\ primary_jira = None
    /\ secondary_jira = SecondaryToken

\* the JIRA(...) calls of start-up made to a host
CallsTo(host) ==
    SelectSeq(startup.calls, LAMBDA c : c.server = "https://" \o host)

IsLongString(f) == f.value.t = "str" /\ Len(f.value.v) > 10

\* C16: the shapes are tried in a fixed order and a later one is used only
\* when every earlier one does not match: the "response" field; else, when
\* "message" is an object, its "content" ("No content in response" when it
\* has none); else the first string field longer than 10 characters; else,
\* and for a body that is no object, str(body).
C16_ExtractionOrder ==
    extraction.applied =>
        LET b == extraction.body
            r == extraction.text
        IN  IF b.t # "dict" THEN r = JStr(PyStr(b))
            ELSE IF \E i \in 1..Len(b.items) : b.items[i].name = "response"
            THEN \E i \in 1..Len(b.items) :
                    b.items[i].name = "response" /\ r = b.items[i].value
            ELSE IF \E i \in 1..Len(b.items) :
                       b.items[i].name = "message" /\ b.items[i].value.t = "dict"
            THEN \E i \in 1..Len(b.items) :
                    /\ b.items[i].name = "message"
                    /\ LET m == b.items[i].value.items
                       IN  IF \E k \in 1..Len(m) : m[k].name = "content"
                           THEN \E k \in 1..Len(m) : m[k].name = "content" /\ r = m[k].value
                           ELSE r = JStr("No content in response")
            ELSE IF \E i \in 1..Len(b.items) : IsLongString(b.items[i])
            THEN \E i \in 1..Len(b.items) :
                    /\ IsLongString(b.items[i])
                    /\ \A j \in 1..(i - 1) : ~IsLongString(b.items[j])
                    /\ r = b.items[i].value
            ELSE r = JStr(PyStr(b))

\* a body with both shapes, "message" first in the document: "response" won
C16_Witness ==
    /\ extraction.applied
    /\ Len(extraction.body.items) = 2
    /\ extraction.body.items[1].name = "message"
    /\ extraction.body.items[1].value.t = "dict"
    /\ extraction.body.items[2].name = "response"
    /\ extraction.text = JStr("Test response")

(***************************************************************************)
(* Properties of concurrently served calls (specification ConcSpec).       *)
(***************************************************************************)
\* every call has completed
AllIdle == \A t \in Threads : threads[t].pc = "idle"

\* C17: when requests are served concurrently, in every interleaving the
\* cache holds at most ollama_cache_size entries once the calls complete.
C17_ConcurrentCallsKeepTheBound ==
    AllIdle => Len(ollama_cache) <= ollama_cache_size

C15_HandlersNeverRaise ==
    tool.name # "none" => tool.raised = "" /\ tool.result # None

\* the label get_my_tickets gives a backend
PrimaryLabel == IF startup.impl = "package" THEN "Primary" ELSE "Nokia"
SecondaryLabel == IF startup.impl = "package" THEN "Secondary" ELSE "Red Hat"

\* C18: get_my_tickets reports "Not connected to <backend> Jira" for exactly
\* the backends that are not connected; a connected backend is searched and
\* contributes its issues or its error line, whatever the other backend did.
C18_BackendsAreIndependent ==
    tool.name = "get_my_tickets" =>
        /\ Contains(tool.result, "Not connected to " \o PrimaryLabel \o " Jira")
              <=> primary_jira = None
        /\ Contains(tool.result, "Not connected to " \o SecondaryLabel \o " Jira")
              <=> secondary_jira = None
        /\ tool.jira_calls >= (IF primary_jira = None THEN 0 ELSE 1)
                              + (IF secondary_jira = None THEN 0 ELSE 1)

\* C19: analyze_all_attachments that analysed the n supported files of the
\* ticket directory called ask_ollama n + 1 times.
C19_OneCallPerFileAndOneCombined ==
    tool.name = "analyze_all_attachments"
    /\ StartsWith(tool.result, "Analysis of all attachments")
        => tool.llm_calls = Len(supported_files(attachments[tool.key].files)) + 1

\* the handlers that take a ticket key and route it
TicketKeyedTools ==
    {"get_ticket_details", "summarize_ticket", "analyze_ticket",
     "get_ticket_attachments", "analyze_attachment", "analyze_all_attachments"}

\* C20: a ticket-keyed handler whose get_jira_client call returned None
\* returns "Error: Not connected to Jira for ticket <key>", having made no
\* Jira call and no ask_ollama call, and leaves the cache (and the
\* attachment directories) as they were.
C20_NotConnectedIsReportedWithoutEffect ==
    [][tool'.name \in TicketKeyedTools /\ tool'.route = Returned(None)
          => /\ tool'.result = "Error: Not connected to Jira for ticket " \o tool'.key
             /\ tool'.raised = ""
             /\ tool'.jira_calls = 0
             /\ tool'.llm_calls = 0
             /\ ollama_cache' = ollama_cache
             /\ attachments' = attachments]_vars

\* the secondary backend is down, a response is cached and a directory was
\* downloaded earlier; analyze_all_attachments of a well-formed key was refused
C20_Witness ==
    /\ tool.name = "analyze_all_attachments"
    /\ tool.key = "CNV-1"
    /\ tool.route = Returned(None)
    /\ tool.result = "Error: Not connected to Jira for ticket CNV-1"
    /\ Len(ollama_cache) = 1

(***************************************************************************)
(* Properties of cache hits (specification Spec).                          *)
(***************************************************************************)
\* the (prompt, system_message) pair of a call, an absent system message
\* being the empty string
Pair(call) == <<call.prompt, IF call.system_message = None THEN "" ELSE call.system_message>>

\* C25: a call is never answered from an entry that a call with another
\* (prompt, system_message) pair stored: when the cache holds only what the
\* call before stored, a call with a different pair is not a hit.
C25_HitsAreForTheSamePair ==
    [][(/\ AskStep
        /\ last.path = "stored"
        /\ Len(ollama_cache) = 1
        /\ ollama_cache[1].key = LastKey
        /\ Pair(last') # Pair(last))
          => last'.path # "hit"]_vars

\* C26: a call answered from the cache leaves the cache as it was, entry by
\* entry and in the same order, and the entry it read was inserted less than
\* ollama_cache_ttl ago: reading an entry does not prolong its life.
C26_HitLeavesTheCacheUnchanged ==
    [][(AskStep /\ last'.path = "hit")
          => /\ ollama_cache' = ollama_cache
             /\ InCache(ollama_cache, NextKey)
             /\ now - CacheGet(ollama_cache, NextKey).timestamp < ollama_cache_ttl
             /\ last'.result = CacheGet(ollama_cache, NextKey).response]_vars

\* a hit on the older of two entries, read after it was inserted
C26_Witness ==
    /\ last.path = "hit"
    /\ Len(ollama_cache) = 2
    /\ ollama_cache[1].key = LastKey
    /\ ollama_cache[1].timestamp < now
    /\ ollama_cache[1].timestamp < ollama_cache[2].timestamp

(***************************************************************************)
(* The two routers compared (specification RouterSpec).                    *)
(***************************************************************************)
\* C30: on the key just routed, in the state it was routed in, the router of
\* the jira_mcp package and the router of jira_ollama_mcp.py return the same
\* handle, and neither raises.
C30_RoutersAreEquivalent ==
    routed.impl # "none" =>
        LET package == get_jira_client(routed.key, primary_jira, secondary_jira,
                                       secondary_project_prefixes, redhat_project_prefixes)
            single_file == get_jira_client_single_file(routed.key, primary_jira,
                                                       secondary_jira,
                                                       secondary_project_prefixes,
                                                       redhat_project_prefixes)
        IN  /\ package.raised = ""
            /\ single_file.raised = ""
            /\ package.value = single_file.value

(***************************************************************************)
(* Properties of the tool handlers, continued (specification ToolSpec).    *)
(***************************************************************************)
\* s ends with suffix
EndsWith(s, suffix) ==
    Len(s) >= Len(suffix) /\ SubSeq(s, Len(s) - Len(suffix) + 1, Len(s)) = suffix

\* the words a handler puts before details that are an error
CannotText(name) ==
    IF name = "summarize_ticket" THEN "Cannot summarize ticket: "
    ELSE "Cannot analyze ticket: "

\* C21: summarize_ticket and analyze_ticket call ask_ollama at most once and
\* only with a prompt built from details that are no error; a call that got
\* a handle fetches the details exactly once; details that start with
\* "Error" are returned behind "Cannot summarize ticket: " ("Cannot analyze
\* ticket: ") with no ask_ollama call; the prompt of analyze_ticket
\* contains the question.
C21_OneLlmCallAfterTheDetails ==
    (tool.name \in {"summarize_ticket", "analyze_ticket"} /\ tool.raised = "") =>
        /\ tool.llm_calls <= 1
        /\ tool.details_calls = (IF tool.route.value = None THEN 0 ELSE 1)
        /\ tool.details_calls = 1 =>
              IF StartsWith(tool.details, "Error")
              THEN /\ tool.llm_calls = 0
                   /\ tool.result = CannotText(tool.name) \o tool.details
              ELSE /\ tool.llm_calls = 1
                   /\ EndsWith(tool.prompt, tool.details)
                   /\ tool.name = "analyze_ticket" => Contains(tool.prompt, ToolQuestion)
        /\ tool.details_calls = 0 => tool.llm_calls = 0 /\ tool.prompt = None

\* analyze_ticket asked the model about details it had retrieved and the
\* answer was stored
C21_Witness ==
    /\ tool.name = "analyze_ticket"
    /\ tool.llm_calls = 1
    /\ tool.llm_path = "stored"
    /\ tool.details_calls = 1
    /\ ~StartsWith(tool.details, "Error")
    /\ Contains(tool.prompt, ToolQuestion)

\* the tools that validate the ticket key
AttachmentTools ==
    {"get_ticket_attachments", "analyze_attachment", "analyze_all_attachments",
     "cleanup_attachments"}

\* key is one or more uppercase letters, a hyphen and one or more digits
KeyShaped(key) ==
    \E n \in 1..(Len(key) - 2) :
        /\ \A i \in 1..n : SubSeq(key, i, i) \in UpperCase
        /\ SubSeq(key, n + 1, n + 1) = "-"
        /\ \A i \in (n + 2)..Len(key) : SubSeq(key, i, i) \in Digit

RECURSIVE FilesIn(_, _)
FilesIn(fs, ks) ==
    IF ks = {} THEN 0
    ELSE LET k == CHOOSE x \in ks : TRUE
         IN  Len(fs[k].files) + FilesIn(fs, ks \ {k})

\* the ticket directories that exist
Existing(fs) == {k \in DOMAIN fs : fs[k].exists}

\* C23: cleanup_attachments with a key leaves every other ticket's directory
\* and files as they were and, when the key's directory exists, removes it
\* and reports the number of files it held; without a key it removes every
\* ticket directory and, when there was one, reports the number of files
\* they held and the number of directories.
C23_CleanupRemovesExactlyItsScope ==
    [][tool'.name = "cleanup_attachments" =>
          IF tool'.key \notin {None, ""}
          THEN /\ \A k \in TicketDirs \ {tool'.key} : attachments'[k] = attachments[k]
               /\ (KeyShaped(tool'.key) /\ attachments[tool'.key].exists) =>
                     /\ ~attachments'[tool'.key].exists
                     /\ tool'.result =
                           "Successfully deleted "
                           \o ToString(Len(attachments[tool'.key].files))
                           \o " attachment(s) for ticket " \o tool'.key \o " from "
                           \o attachments_base_dir \o "/" \o tool'.key \o "."
               /\ (KeyShaped(tool'.key) /\ ~attachments[tool'.key].exists) =>
                     attachments' = attachments
          ELSE /\ Existing(attachments') = {}
               /\ Existing(attachments) # {} =>
                     tool'.result =
                        "Successfully deleted "
                        \o ToString(FilesIn(attachments, Existing(attachments)))
                        \o " attachment(s) from "
                        \o ToString(Cardinality(Existing(attachments)))
                        \o " ticket(s) in " \o attachments_base_dir \o "."]_vars

\* the directory of CNV-1 was removed with its three files and the directory
\* of ABC-1 is still there with its files
C23_Witness ==
    /\ tool.name = "cleanup_attachments"
    /\ tool.key = "CNV-1"
    /\ StartsWith(tool.result, "Successfully deleted 3 attachment(s) for ticket CNV-1 from ")
    /\ ~attachments["CNV-1"].exists
    /\ attachments["ABC-1"].exists
    /\ attachments["ABC-1"].files = <<"core.log", "log.txt">>

\* C24: an analyze_attachment call for a file that is not in the ticket's
\* directory, is larger than 10 MB or has an extension that is neither a text
\* extension nor ".pdf" returns a string that starts with "Error" and makes
\* no ask_ollama call; a call makes at most one ask_ollama call, with a prompt
\* that ends with the content of the file.
C24_NoLlmCallWithoutTheFile ==
    tool.name = "analyze_attachment" =>
        LET dir == attachments[tool.key]
            missing == ~(dir.exists /\ InList(tool.filename, dir.files))
            too_large == FileSize(tool.filename) > 10 * 1024 * 1024
            unsupported == file_ext(tool.filename) \notin TEXT_FILE_EXTENSIONS \cup {".pdf"}
        IN  /\ tool.llm_calls <= 1
            /\ (missing \/ too_large \/ unsupported) =>
                  /\ tool.llm_calls = 0
                  /\ tool.raised = ""
                  /\ StartsWith(tool.result, "Error")
            /\ tool.llm_calls = 1 => EndsWith(tool.prompt, FileContent(tool.filename))

\* C27: get_my_tickets reads the handles get_jira_client reads, the ones
\* initialize_jira_clients assigned, and for a backend that is connected its
\* result holds no "Not connected to <backend> Jira".
C27_TicketsAreAskedOfTheConnectedBackends ==
    tool.name = "get_my_tickets" =>
        /\ tickets_handles(World) = <<primary_jira, secondary_jira>>
        /\ primary_jira # None =>
              ~Contains(tool.result, "Not connected to " \o PrimaryLabel \o " Jira")
        /\ secondary_jira # None =>
              ~Contains(tool.result, "Not connected to " \o SecondaryLabel \o " Jira")

\* C28: get_my_tickets returns "Error: Not connected to any Jira instance"
\* only when neither backend is connected.
C28_NotConnectedToAnyMeansNoBackend ==
    (tool.name = "get_my_tickets"
        /\ tool.result = "Error: Not connected to any Jira instance") =>
        primary_jira = None /\ secondary_jira = None

\* the text a handler returns when it falls back on the ticket itself
FallbackText(name, key) ==
    IF name = "summarize_ticket"
    THEN "Could not generate summary using Ollama. Using built-in summary instead:\n\nTicket "
         \o key \o " concerns: '"
    ELSE "Ollama analysis failed. Basic information about " \o key \o ":\n\nSummary: "

\* C29: summarize_ticket and analyze_ticket whose ask_ollama call ended on a
\* failure path (the POST raised, a status other than 200, a body that is no
\* JSON) return their fallback text.
C29_FailedLlmCallGivesTheFallback ==
    (tool.name \in {"summarize_ticket", "analyze_ticket"}
        /\ tool.llm_path \in {"exception", "api_error", "json_error"}) =>
        StartsWith(tool.result, FallbackText(tool.name, tool.key))

====
